---- MODULE Spec2Model ----
(***************************************************************************)
(* altrightclick: the persistence monitor (run_monitor, persistence.cpp),  *)
(* the low-level mouse hook classifier (LowLevelMouseProc, hook.cpp), the  *)
(* hook worker's start and stop, the tray's tuning commands and            *)
(* config::load.                                                           *)
(*                                                                         *)
(* Several specifications share the module: SpecWatchdog and LiveWatchdog  *)
(* run the monitor against the main processes it watches, SpecHook runs    *)
(* the hook callback against a stream of pointer events, SpecReload runs   *)
(* it against a call of apply_hook_config, SpecSession follows who starts  *)
(* and stops monitors, SpecStart the hook worker thread, SpecTune the two  *)
(* thresholds and SpecLoad the reading of a configuration file;            *)
(* SpecButtons is SpecHook with the buttons observed, SpecDesktop runs the *)
(* callback on points far apart.  Each leaves the                          *)
(* variables of the other subsystems at their initial values.              *)
(***************************************************************************)
EXTENDS Integers, Sequences, FiniteSets, TLC

(***************************************************************************)
(* Bounds of the model (not program constants).                            *)
(***************************************************************************)
\* processes ever created: the parent plus the children the monitor spawns
MaxProcs == 3
\* last instant (ms after Epoch0) at which the clock may still be advanced
MaxNow == 65000
\* spawn failures the environment may inject
MaxSpawnFail == 2

(***************************************************************************)
(* Program constants.                                                      *)
(***************************************************************************)
STILL_ACTIVE == 259

\* instant (ms) at which the monitor starts; persisted history is older
Epoch0 == 100000
\* time that may pass while the monitor is blocked on a child
TimeSteps == {30000}
\* exit codes a main process returns or dies with
ExitCodes == {0, 1}

\* persistence_* values as written in the configuration file
RawMaxRestarts == {-1, 1, 2}
RawWindowSec == {60}
RawBackoffMs == {1000, 40000}
RawBackoffMaxMs == {3000}
\* restart_history.log as left by an earlier monitor (seconds since epoch)
InitialHistories == {<<>>, <<99>>}

VARIABLES
    \* ---- monitor process (run_monitor) ----
    wpc,            \* position of run_monitor
    kMaxRestarts,   \* const int kMaxRestarts
    kWindow,        \* kWindow, in ms
    backoff,        \* std::chrono::milliseconds backoff
    backoff_max,    \* const backoff_max
    backoff0,       \* backoffMs as loaded (initial delay)
    hParent,        \* OpenProcess succeeded
    hStop,          \* CreateEventW succeeded
    wr,             \* result of the WaitForMultipleObjects on the child
    exit_code,      \* DWORD exit_code
    intentional,    \* bool intentional
    restarts,       \* in-memory restart timestamps (ms)
    nSpawnFail,     \* spawn failures so far
    \* ---- shared artifacts ----
    stopSet,        \* the named manual-reset event is signaled
    marker,         \* intent marker file exists
    history,        \* restart_history.log: sequence of seconds; <<>> = no file
    now,            \* system clock, ms
    \* ---- main processes: procs[1] is the parent, the rest are children ----
    procs,
    \* ---- the session: who spawns monitors (main.cpp, tray.cpp) ----
    mains,          \* main-process instances, in order of launch
    monitors        \* monitor processes, in order of launch

wvars == <<wpc, kMaxRestarts, kWindow, backoff, backoff_max, backoff0, hParent, hStop, wr,
           exit_code, intentional, restarts, nSpawnFail, stopSet, marker, history, now, procs,
           mains, monitors>>

VARIABLES
    \* ---- hook configuration (apply_hook_config) ----
    g_enabled,          \* std::atomic<bool> g_enabled
    g_ignore_injected,  \* bool g_ignore_injected
    g_modifier_combo,   \* std::vector<unsigned int> g_modifier_combo
    modifier_vk,        \* g_state.modifier_vk
    g_trigger,          \* Config::Trigger g_trigger
    g_clickTimeMs,      \* unsigned int g_clickTimeMs
    g_moveRadius,       \* int g_moveRadius
    \* ---- click/drag discrimination ----
    g_tracking,         \* bool g_tracking
    g_startPt,          \* POINT g_startPt
    g_downTick,         \* DWORD g_downTick, as <<high word, low word>>
    \* ---- environment of the hook ----
    tick,               \* GetTickCount(), as <<high word, low word>>
    keys,               \* virtual keys currently down (GetAsyncKeyState)
    queue,              \* events submitted with SendInput, not yet delivered
    ev,                 \* the event of the latest callback invocation
    ret,                \* its result: "next" (CallNextHookEx) or "eat" (1)
    sent,               \* number of events submitted with SendInput so far
    nHandled,           \* callback invocations so far
    \* ---- observation of gestures ----
    held,               \* ms since the gesture's button-down
    gest,               \* the gesture in progress
    fin,                \* the gesture that the latest event ended, if it did
    wire,               \* buttons held at the device, and as listeners have seen them
    \* ---- a call of apply_hook_config on another thread ----
    apc,                \* its position: 0 not called, 1..8 next write, 9 returned
    newCfg,             \* its argument cfg
    oldCfg              \* the configuration in force when it was called

hvars == <<g_enabled, g_ignore_injected, g_modifier_combo, modifier_vk, g_trigger, g_clickTimeMs,
           g_moveRadius, g_tracking, g_startPt, g_downTick, tick, keys, queue, ev, ret, sent,
           nHandled, held, gest, wire, fin, apc, newCfg, oldCfg>>

VARIABLES
    \* ---- hook worker lifecycle (start, stop; hook.cpp) ----
    g_hookRunning,      \* std::atomic<bool> g_hookRunning
    mouse_hook,         \* g_state.mouse_hook is not null
    g_hookThread,       \* std::thread g_hookThread is joinable
    g_hookThreadId,     \* DWORD g_hookThreadId is not 0
    ready,              \* the promise of start(): "unset", "ok" or "fail"
    hookOk,             \* bool ok of the worker lambda
    quit,               \* WM_QUIT is posted to the worker's queue
    tpc,                \* position of the worker thread
    cpc,                \* position of the controller thread in start() or stop()
    startRet,           \* value of the latest return of start(): "none", "true", "false"
    nInstall,           \* calls of install() made for the start() in progress
    nCalls,             \* calls of start() and stop() so far
    \* ---- status query (main.cpp, --status) ----
    monitor_running,    \* what the latest step reported: "none", "true", "false"
    \* ---- config::load ----
    config_file,        \* the key=value lines of the configuration file
    loaded              \* <<the Config that load returned>>, <<>> before the call

lvars == <<g_hookRunning, mouse_hook, g_hookThread, g_hookThreadId, ready, hookOk, quit, tpc,
           cpc, startRet, nInstall, nCalls>>

fvars == <<config_file, loaded>>

xvars == <<lvars, monitor_running, fvars>>

vars == <<wvars, hvars, xvars>>

Max(a, b) == IF a >= b THEN a ELSE b
Min(a, b) == IF a <= b THEN a ELSE b

(***************************************************************************)
(* Low-level mouse hook (hook.cpp)                                         *)
(***************************************************************************)
\* callback invocations per behaviour
MaxEvents == 3

VK_MENU == 18
VK_CONTROL == 17
XBUTTON1 == 1
XBUTTON2 == 2
\* a DWORD is kept as two 16-bit words so that it wraps at 2^32
W16 == 65536

Triggers == {"Left", "X1", "X2"}
\* modifier settings config::load produces: no combo (legacy single
\* modifier left at its default), a two-key combo
ModifierSettings ==
    { [combo |-> <<>>, vk |-> VK_MENU],
      [combo |-> <<VK_MENU, VK_CONTROL>>, vk |-> VK_MENU] }
ClickTimes == {250}
MoveRadii == {6}
Points == {<<0, 0>>, <<-6, 0>>, <<4, 5>>}
\* ms between two callback invocations
Deltas == {1, 250}
\* GetTickCount() at hook installation: 100 ms before the 32-bit wrap
InitialTicks == {<<65535, 65435>>}

\* MSLLHOOKSTRUCT + wParam + nCode.  injected: LLMHF_INJECTED or
\* LLMHF_LOWER_IL_INJECTED set; tag: dwExtraInfo == kArcInjectedTag;
\* hc: nCode == HC_ACTION
Event(m, x, p, i, t, h) == [msg |-> m, xb |-> x, pt |-> p, injected |-> i, tag |-> t, hc |-> h]

\* origin of an event: a device, another process (injected, with or without
\* the same extra info as this process uses)
Origins == {<<FALSE, FALSE>>, <<TRUE, FALSE>>, <<TRUE, TRUE>>}

\* button messages of one source button, on either edge
ButtonEvents(down, up, x) ==
    {Event(m, x, p, o[1], o[2], TRUE) : m \in {down, up}, p \in Points, o \in Origins}

\* events that reach the hook from the devices or from other processes
ExternalEvents ==
    ButtonEvents("LDOWN", "LUP", 0) \cup ButtonEvents("MDOWN", "MUP", 0) \cup
    ButtonEvents("XDOWN", "XUP", XBUTTON1) \cup ButtonEvents("XDOWN", "XUP", XBUTTON2) \cup
    {Event("MOVE", 0, p, o[1], o[2], TRUE) : p \in Points, o \in Origins} \cup
    {Event("RDOWN", 0, <<0, 0>>, FALSE, FALSE, TRUE), Event("RUP", 0, <<0, 0>>, FALSE, FALSE, TRUE),
     Event("MOVE", 0, <<0, 0>>, FALSE, FALSE, FALSE)}

\* position of the events other processes inject
InjectedPoint == <<4, 5>>

\* the events tried under trigger trig: device events of the trigger button
\* and pointer moves at every position, injected ones at InjectedPoint, the
\* events of other buttons at one position and from the device only
Relevant(e, trig) ==
    /\ e.injected => e.pt = InjectedPoint
    /\ \/ e.msg \in {"MOVE", "RDOWN", "RUP"}
       \/ e.msg \in {"LDOWN", "LUP"} /\ trig = "Left"
       \/ e.msg \in {"MDOWN", "MUP"} /\ trig = "Middle"
       \/ e.msg \in {"XDOWN", "XUP"} /\ e.xb = XBUTTON1 /\ trig = "X1"
       \/ e.msg \in {"XDOWN", "XUP"} /\ e.xb = XBUTTON2 /\ trig = "X2"
       \/ e.msg \in {"LDOWN", "MDOWN", "XDOWN"} /\ e.pt = <<0, 0>> /\ ~e.injected

NoEvent == Event("NONE", 0, <<0, 0>>, FALSE, FALSE, FALSE)

\* the INPUT structures the hook submits: dwExtraInfo = kArcInjectedTag; they
\* come back through the hook flagged as injected, at the pointer position
Synth(m, x, p) == Event(m, x, p, TRUE, TRUE, TRUE)

\* DWORD arithmetic on <<high, low>>
DwAdd(a, d) == LET lo == a[2] + d IN <<(a[1] + (lo \div W16)) % W16, lo % W16>>
\* mutant: the low words are subtracted without the borrow
DwSub_NoBorrow(a, b) == <<(a[1] - b[1] + W16) % W16, (a[2] - b[2] + W16) % W16>>
DwSub(a, b) ==
    LET lo == a[2] - b[2]
        borrow == IF lo < 0 THEN 1 ELSE 0
    IN  <<(a[1] - b[1] - borrow + W16) % W16, (lo + W16) % W16>>
\* a < n: the comparison with the boundary left out
DwLeq_Strict(a, n) == a[1] < n \div W16 \/ (a[1] = n \div W16 /\ a[2] < n % W16)
\* mutant: the hold time is not compared
DwLeq_Always(a, n) == TRUE
\* a <= n for an unsigned int n below 2^31
DwLeq(a, n) == a[1] < n \div W16 \/ (a[1] = n \div W16 /\ a[2] <= n % W16)

\* what the build makes of a signed int computation whose result does not
\* fit 32 bits (undefined behaviour): the low 32 bits, as the imul and add
\* instructions leave them, or the result of a wider register, capped here
OverflowOutcomes == {"wrap", "wide"}

\* d * d for |d| < 2^16, as <<high word, low word>>
Sq16(d) ==
    LET m == IF d < 0 THEN 0 - d ELSE d
        a == m \div 256
        b == m % 256
        mid == 2 * a * b * 256 + b * b
    IN  <<a * a + mid \div W16, mid % W16>>

\* dx * dx + dy * dy without loss, as <<high part, low word>>
SumSq(a, b) ==
    LET x == Sq16(a[1] - b[1])
        y == Sq16(a[2] - b[2])
    IN  <<x[1] + y[1] + (x[2] + y[2]) \div W16, (x[2] + y[2]) % W16>>

\* distance_sq: squared distance of two points in int arithmetic; ub is
\* the outcome of the build when dx * dx or the sum exceeds INT_MAX
distance_sq(a, b, ub) ==
    LET v == SumSq(a, b)
    IN  IF v[1] < W16 \div 2 THEN v[1] * W16 + v[2]
        ELSE IF ub = "wrap"
             THEN IF v[1] % W16 < W16 \div 2 THEN (v[1] % W16) * W16 + v[2]
                  ELSE ((v[1] % W16) - W16) * W16 + v[2]
        ELSE 2147483647

\* sets of modifier keys held down at a time
KeySets == {{}, {VK_MENU}, {VK_MENU, VK_CONTROL}}

\* GetAsyncKeyState(vk) & 0x8000
KeyDown(vk) == vk \in keys

\* mutant: an empty combo asks for no key
all_mods_down_NoFallback == \A i \in 1..Len(g_modifier_combo) : KeyDown(g_modifier_combo[i])
\* all_mods_down: every key of the combo, or the legacy single modifier
all_mods_down ==
    IF g_modifier_combo # <<>>
    THEN \A i \in 1..Len(g_modifier_combo) : KeyDown(g_modifier_combo[i])
    ELSE IF modifier_vk # 0 THEN KeyDown(modifier_vk) ELSE TRUE

\* is_down / is_up: the message is the configured trigger button's
is_down(e) ==
    CASE g_trigger = "Left" -> e.msg = "LDOWN"
      [] g_trigger = "Middle" -> e.msg = "MDOWN"
      [] g_trigger = "X1" -> e.msg = "XDOWN" /\ e.xb = XBUTTON1
      [] g_trigger = "X2" -> e.msg = "XDOWN" /\ e.xb = XBUTTON2

is_up(e) ==
    CASE g_trigger = "Left" -> e.msg = "LUP"
      [] g_trigger = "Middle" -> e.msg = "MUP"
      [] g_trigger = "X1" -> e.msg = "XUP" /\ e.xb = XBUTTON1
      [] g_trigger = "X2" -> e.msg = "XUP" /\ e.xb = XBUTTON2

\* a left-button down whatever the trigger
SourceDown_LeftOnly(p) == Synth("LDOWN", 0, p)
\* the source-button down injected when a gesture turns into a drag
SourceDown(p) ==
    CASE g_trigger = "Left" -> Synth("LDOWN", 0, p)
      [] g_trigger = "Middle" -> Synth("MDOWN", 0, p)
      [] g_trigger = "X1" -> Synth("XDOWN", XBUTTON1, p)
      [] g_trigger = "X2" -> Synth("XDOWN", XBUTTON2, p)

\* the right click injected for a translated click
RightClick(p) == <<Synth("RDOWN", 0, p), Synth("RUP", 0, p)>>

\* the tag is not looked at
IsSelfInjected_Never(e) == FALSE
\* pMouse->dwExtraInfo == kArcInjectedTag
IsSelfInjected(e) == e.tag

\* the injected flags are not looked at
IsIgnoredInjected_Never(e) == FALSE
\* g_ignore_injected && (flags & (LLMHF_INJECTED | LLMHF_LOWER_IL_INJECTED))
IsIgnoredInjected(e) == g_ignore_injected /\ e.injected

\* result of one callback invocation: return value, new tracking state and
\* the events handed to SendInput
Outcome(r, tr, sp, dtk, snd) == [ret |-> r, tracking |-> tr, startPt |-> sp, downTick |-> dtk, send |-> snd]

PassThrough == Outcome("next", g_tracking, g_startPt, g_downTick, <<>>)

\* mutant: a drag ends tracking without the source-button down
LowLevelMouseProc_NoDragDown(e, t, ub) ==
    IF ~e.hc THEN PassThrough
    ELSE IF ~g_enabled THEN PassThrough
    ELSE IF IsSelfInjected(e) THEN PassThrough
    ELSE IF IsIgnoredInjected(e) THEN PassThrough
    ELSE IF is_down(e)
         THEN IF all_mods_down
              THEN Outcome("eat", TRUE, e.pt, t, <<>>)
              ELSE PassThrough
    ELSE IF e.msg = "MOVE"
         THEN IF g_tracking /\ distance_sq(e.pt, g_startPt, ub) > g_moveRadius * g_moveRadius
              THEN Outcome("next", FALSE, g_startPt, g_downTick, <<>>)
              ELSE PassThrough
    ELSE IF is_up(e)
         THEN IF g_tracking
              THEN LET dt == DwSub(t, g_downTick)
                       d2 == distance_sq(e.pt, g_startPt, ub)
                   IN  IF DwLeq(dt, g_clickTimeMs) /\ d2 <= g_moveRadius * g_moveRadius
                       THEN Outcome("eat", FALSE, g_startPt, g_downTick, RightClick(e.pt))
                       ELSE Outcome("eat", FALSE, g_startPt, g_downTick, <<>>)
              ELSE PassThrough
    ELSE PassThrough
\* mutant: g_enabled is not consulted
LowLevelMouseProc_IgnoresEnabled(e, t, ub) ==
    IF ~e.hc THEN PassThrough
    ELSE IF IsSelfInjected(e) THEN PassThrough
    ELSE IF IsIgnoredInjected(e) THEN PassThrough
    ELSE IF is_down(e)
         THEN IF all_mods_down
              THEN Outcome("eat", TRUE, e.pt, t, <<>>)
              ELSE PassThrough
    ELSE IF e.msg = "MOVE"
         THEN IF g_tracking /\ distance_sq(e.pt, g_startPt, ub) > g_moveRadius * g_moveRadius
              THEN Outcome("next", FALSE, g_startPt, g_downTick, <<SourceDown(e.pt)>>)
              ELSE PassThrough
    ELSE IF is_up(e)
         THEN IF g_tracking
              THEN LET dt == DwSub(t, g_downTick)
                       d2 == distance_sq(e.pt, g_startPt, ub)
                   IN  IF DwLeq(dt, g_clickTimeMs) /\ d2 <= g_moveRadius * g_moveRadius
                       THEN Outcome("eat", FALSE, g_startPt, g_downTick, RightClick(e.pt))
                       ELSE Outcome("eat", FALSE, g_startPt, g_downTick, <<>>)
              ELSE PassThrough
    ELSE PassThrough

\* LowLevelMouseProc(nCode, wParam, lParam) with GetTickCount() = t; ub is
\* the outcome of an overflow in distance_sq
LowLevelMouseProc(e, t, ub) ==
    IF ~e.hc THEN PassThrough
    ELSE IF ~g_enabled THEN PassThrough
    ELSE IF IsSelfInjected(e) THEN PassThrough
    ELSE IF IsIgnoredInjected(e) THEN PassThrough
    ELSE IF is_down(e)
         THEN IF all_mods_down
              THEN Outcome("eat", TRUE, e.pt, t, <<>>)
              ELSE PassThrough
    ELSE IF e.msg = "MOVE"
         THEN IF g_tracking /\ distance_sq(e.pt, g_startPt, ub) > g_moveRadius * g_moveRadius
              THEN Outcome("next", FALSE, g_startPt, g_downTick, <<SourceDown(e.pt)>>)
              ELSE PassThrough
    ELSE IF is_up(e)
         THEN IF g_tracking
              THEN LET dt == DwSub(t, g_downTick)
                       d2 == distance_sq(e.pt, g_startPt, ub)
                   IN  IF DwLeq(dt, g_clickTimeMs) /\ d2 <= g_moveRadius * g_moveRadius
                       THEN Outcome("eat", FALSE, g_startPt, g_downTick, RightClick(e.pt))
                       ELSE Outcome("eat", FALSE, g_startPt, g_downTick, <<>>)
              ELSE PassThrough
    ELSE PassThrough

(***************************************************************************)
(* Observation of gestures: what happened between a button-down and the    *)
(* matching button-up, recorded from the events and the callback results.  *)
(***************************************************************************)
NoGesture ==
    [active |-> FALSE, start |-> <<0, 0>>, downRet |-> "next", tracked |-> FALSE,
     clean |-> TRUE, exceeded |-> FALSE, passed |-> TRUE, synth |-> <<>>]

NoFinished ==
    [valid |-> FALSE, clean |-> TRUE, tracked |-> FALSE, exceeded |-> FALSE, passed |-> TRUE,
     elapsed |-> 0, d2 |-> 0, downRet |-> "next", upRet |-> "next", synth |-> <<>>]

\* the classifier looks at the event at all
Visible(e) == e.hc /\ g_enabled /\ ~e.tag /\ ~(g_ignore_injected /\ e.injected)

\* the keys the configuration requires: the combo, else the single modifier
ConfiguredModifiers ==
    IF g_modifier_combo # <<>> THEN {g_modifier_combo[i] : i \in 1..Len(g_modifier_combo)}
    ELSE IF modifier_vk # 0 THEN {modifier_vk} ELSE {}

ModifiersHeld == ConfiguredModifiers \subseteq keys

ExceedsRadius(p, q) ==
    (p[1] - q[1]) * (p[1] - q[1]) + (p[2] - q[2]) * (p[2] - q[2]) > g_moveRadius * g_moveRadius

\* gesture in progress after event e arrived d ms later with outcome o
NextGesture(e, o) ==
    IF ~Visible(e) THEN gest
    ELSE IF is_down(e)
         THEN IF ModifiersHeld
              THEN IF ~e.injected
                   THEN [active |-> TRUE, start |-> e.pt, downRet |-> o.ret, tracked |-> o.tracking,
                         clean |-> TRUE, exceeded |-> FALSE, passed |-> TRUE, synth |-> o.send]
                   ELSE [gest EXCEPT !.clean = FALSE]
              ELSE gest
    ELSE IF ~gest.active THEN gest
    ELSE IF e.msg = "MOVE"
         THEN LET ex == gest.exceeded \/ ExceedsRadius(e.pt, gest.start)
              IN  [gest EXCEPT !.exceeded = ex,
                               !.passed = gest.passed /\ (ex => o.ret = "next"),
                               !.synth = gest.synth \o o.send]
    ELSE IF is_up(e) THEN NoGesture
    ELSE [gest EXCEPT !.synth = gest.synth \o o.send]

\* the gesture that event e, d ms after the previous event, brings to an end
NextFinished(e, d, o) ==
    IF Visible(e) /\ gest.active /\ is_up(e)
         THEN [valid |-> TRUE, clean |-> gest.clean, tracked |-> gest.tracked,
               exceeded |-> gest.exceeded,
               passed |-> gest.passed /\ (gest.exceeded => o.ret = "next"),
               elapsed |-> held + d,
               d2 |-> (e.pt[1] - gest.start[1]) * (e.pt[1] - gest.start[1])
                      + (e.pt[2] - gest.start[2]) * (e.pt[2] - gest.start[2]),
               downRet |-> gest.downRet, upRet |-> o.ret, synth |-> gest.synth \o o.send]
    ELSE NoFinished

NextHeld(e, d) ==
    IF Visible(e) /\ is_down(e) /\ ModifiersHeld /\ ~e.injected THEN 0
    ELSE IF gest.active THEN held + d
    ELSE 0

(***************************************************************************)
(* Observation of the buttons: which source buttons are held down at the   *)
(* device, and which ones the listeners behind the hook take to be down    *)
(* from the events passed on with CallNextHookEx and the downs submitted   *)
(* with SendInput (counted when submitted).                                 *)
(***************************************************************************)
\* ok: every device button event so far changed the state of its button
\* and the classifier looked at no event of another process;
\* out_ok: every button event shown to the listeners changed the state of
\* its button as they see it
NoWire == [ok |-> TRUE, held |-> {}, out |-> {}, out_ok |-> TRUE]

\* an input the observation does not follow (any further)
VoidWire == [ok |-> FALSE, held |-> {}, out |-> {}, out_ok |-> TRUE]

\* the source button of a button message, as a Config::Trigger
Button(e) ==
    CASE e.msg \in {"LDOWN", "LUP"} -> "Left"
      [] e.msg \in {"MDOWN", "MUP"} -> "Middle"
      [] e.msg \in {"XDOWN", "XUP"} /\ e.xb = XBUTTON1 -> "X1"
      [] e.msg \in {"XDOWN", "XUP"} /\ e.xb = XBUTTON2 -> "X2"
      [] OTHER -> "none"

IsDownMsg(e) == e.msg \in {"LDOWN", "MDOWN", "XDOWN"}

\* the buttons after event e was handled with outcome o
NextWire(e, o) ==
    LET b == Button(e)
        s == IF o.send # <<>> THEN Button(o.send[1]) ELSE "none"
    IN  IF ~wire.ok \/ ~e.hc THEN wire
        ELSE IF e.injected
             THEN IF b # "none" /\ ~e.tag /\ g_enabled /\ ~g_ignore_injected THEN VoidWire ELSE wire
        ELSE IF b # "none"
             THEN IF IsDownMsg(e) = (b \in wire.held) THEN VoidWire
                  ELSE [ok |-> TRUE,
                        held |-> IF IsDownMsg(e) THEN wire.held \cup {b} ELSE wire.held \ {b},
                        out |-> IF o.ret # "next" THEN wire.out
                                ELSE IF IsDownMsg(e) THEN wire.out \cup {b} ELSE wire.out \ {b},
                        out_ok |-> wire.out_ok /\ (o.ret = "next" => IsDownMsg(e) # (b \in wire.out))]
        ELSE IF s # "none"
             THEN [wire EXCEPT !.out = wire.out \cup {s}, !.out_ok = wire.out_ok /\ s \notin wire.out]
        ELSE wire

\* no configuration
NoCfg == [enabled |-> FALSE, ignore_injected |-> FALSE, combo |-> <<>>, vk |-> 0,
          trigger |-> "Left", click_time_ms |-> 0, move_radius_px |-> 0]

\* state of the hook right after installation, configuration applied
HookStart ==
    /\ g_tracking = FALSE
    /\ g_startPt = <<0, 0>>
    /\ g_downTick = <<0, 0>>
    /\ keys = {}
    /\ queue = <<>>
    /\ ev = NoEvent
    /\ ret = "next"
    /\ sent = 0
    /\ nHandled = 0
    /\ held = 0
    /\ gest = NoGesture
    /\ fin = NoFinished
    /\ apc = 0
    /\ newCfg = NoCfg
    /\ oldCfg = NoCfg

\* apply_hook_config(cfg) for a configuration config::load can return
HInit ==
    /\ g_enabled \in BOOLEAN
    /\ g_ignore_injected \in BOOLEAN
    /\ \E m \in ModifierSettings :
          /\ g_modifier_combo = m.combo
          /\ modifier_vk = m.vk
    /\ g_trigger \in Triggers
    /\ g_clickTimeMs \in ClickTimes
    /\ g_moveRadius \in MoveRadii
    /\ tick \in InitialTicks
    /\ wire = VoidWire
    /\ HookStart

\* the hook while the monitor is under study: defaults, nothing happening
HIdle ==
    /\ g_enabled = TRUE
    /\ g_ignore_injected = TRUE
    /\ g_modifier_combo = <<>>
    /\ modifier_vk = VK_MENU
    /\ g_trigger = "Left"
    /\ g_clickTimeMs = 250
    /\ g_moveRadius = 6
    /\ tick = <<0, 0>>
    /\ wire = VoidWire
    /\ HookStart

\* one invocation of the callback for event e, d ms after the previous one;
\* rest is what remains queued for delivery besides the new submissions
Callback(e, d, rest, ub) ==
    LET t == DwAdd(tick, d)
        o == LowLevelMouseProc(e, t, ub)
    IN  /\ nHandled < MaxEvents
        /\ nHandled' = nHandled + 1
        /\ tick' = t
        /\ ev' = e
        /\ ret' = o.ret
        /\ g_tracking' = o.tracking
        /\ g_startPt' = o.startPt
        /\ g_downTick' = o.downTick
        /\ queue' = rest \o o.send
        /\ sent' = sent + Len(o.send)
        /\ UNCHANGED <<g_enabled, g_ignore_injected, g_modifier_combo, modifier_vk, g_trigger,
                       g_clickTimeMs, g_moveRadius, keys, apc, newCfg, oldCfg>>

\* the invocation together with what it shows of gestures and buttons.  The
\* points of the events that come this way lie within a few pixels of each
\* other, so distance_sq does not overflow and its ub is not consulted
Invoke(e, d, rest) ==
    LET o == LowLevelMouseProc(e, DwAdd(tick, d), "wrap")
    IN  /\ Callback(e, d, rest, "wrap")
        /\ gest' = NextGesture(e, o)
        /\ wire' = NextWire(e, o)
        /\ fin' = NextFinished(e, d, o)
        /\ held' = NextHeld(e, d)

\* a device or another process produces a pointer event
MouseEvent ==
    /\ \E e \in {x \in ExternalEvents : Relevant(x, g_trigger)}, d \in Deltas :
          Invoke(e, d, queue)
    /\ UNCHANGED <<wvars, xvars>>

\* an event this process submitted with SendInput reaches the hook
OwnEvent ==
    /\ queue # <<>>
    /\ \E d \in Deltas : Invoke(Head(queue), d, Tail(queue))
    /\ UNCHANGED <<wvars, xvars>>

\* a modifier key is pressed or released
KeyChange ==
    /\ keys' \in KeySets \ {keys}
    /\ fin' = NoFinished
    /\ UNCHANGED <<g_enabled, g_ignore_injected, g_modifier_combo, modifier_vk, g_trigger,
                   g_clickTimeMs, g_moveRadius, g_tracking, g_startPt, g_downTick, tick, queue,
                   ev, ret, sent, nHandled, held, gest, wire, apc, newCfg, oldCfg>>
    /\ UNCHANGED <<wvars, xvars>>

NextHook ==
    \/ MouseEvent
    \/ OwnEvent
    \/ KeyChange

RECURSIVE SelectSeqMs(_, _, _)
\* std::remove_if + erase: keep, in order, the entries with NOT (n - t > w)
SelectSeqMs(s, n, w) ==
    IF s = <<>> THEN <<>>
    ELSE IF n - Head(s) > w THEN SelectSeqMs(Tail(s), n, w)
         ELSE <<Head(s)>> \o SelectSeqMs(Tail(s), n, w)

\* save_restart_history: one line per entry, duration_cast to whole seconds
save_restart_history(entries) == [i \in 1..Len(entries) |-> entries[i] \div 1000]

\* load_restart_history: each line is read back as a time_point of seconds
load_restart_history(file) == [i \in 1..Len(file) |-> file[i] * 1000]

\* config::load clamps of the persistence_* keys
load_max_restarts(raw) == Max(0, raw)
load_window_sec(raw) == Max(1, raw)
load_backoff_ms(raw) == Max(0, raw)
load_backoff_max_ms(raw) == Max(0, raw)

\* path: the way main left, "none" while it runs or when it was killed
NewProc == [st |-> "running", code |-> STILL_ACTIVE, wrote |-> FALSE, path |-> "none"]

\* the child whose handle the monitor holds (pi.hProcess)
Child == Len(procs)

Exited(p) == procs[p].st = "exited"

WInit ==
    /\ wpc = "Start"
    /\ \E rm \in RawMaxRestarts, rw \in RawWindowSec, rb \in RawBackoffMs, rx \in RawBackoffMaxMs :
          /\ kMaxRestarts = load_max_restarts(rm)
          /\ kWindow = load_window_sec(rw) * 1000
          /\ backoff0 = load_backoff_ms(rb)
          /\ backoff = load_backoff_ms(rb)
          /\ backoff_max = load_backoff_max_ms(rx)
    /\ hParent = FALSE
    /\ hStop = FALSE
    /\ wr = "none"
    /\ exit_code = 0
    /\ intentional = FALSE
    /\ restarts = <<>>
    /\ nSpawnFail = 0
    /\ stopSet = FALSE
    /\ marker \in BOOLEAN
    /\ history \in InitialHistories
    /\ now = Epoch0
    /\ procs = <<NewProc>>

(***************************************************************************)
(* Main process (main.cpp): deliberate exit writes the marker, then        *)
(* returns 0; a crash or an early return leaves without writing it.        *)
(***************************************************************************)

\* the monitor's blocked wait on the child is satisfied by the first object
\* that becomes signaled (WaitForMultipleObjects, bWaitAll = FALSE)
LatchProc(p) == IF wpc = "BlockedChild" /\ wr = "none" /\ p = Child THEN "proc" ELSE wr
LatchStop == IF wpc = "BlockedChild" /\ wr = "none" /\ hStop THEN "stop" ELSE wr

MainWriteMarker(p) ==
    /\ procs[p].st = "running"
    /\ procs' = [procs EXCEPT ![p].st = "exiting", ![p].wrote = TRUE, ![p].path = "quit"]
    /\ marker' = TRUE
    /\ UNCHANGED <<hvars, xvars, mains, monitors, wpc, kMaxRestarts, kWindow, backoff, backoff_max, backoff0, hParent, hStop, wr,
                   exit_code, intentional, restarts, nSpawnFail, stopSet, history, now>>

MainExit(p) ==
    /\ procs[p].st = "exiting"
    /\ procs' = [procs EXCEPT ![p].st = "exited", ![p].code = 0]
    /\ wr' = LatchProc(p)
    /\ UNCHANGED <<hvars, xvars, mains, monitors, wpc, kMaxRestarts, kWindow, backoff, backoff_max, backoff0, hParent, hStop,
                   exit_code, intentional, restarts, nSpawnFail, stopSet, marker, history, now>>

\* main finds enabled = false in its configuration: return 0 right after
\* apply_hook_config, before the hook is started
MainDisabled(p) ==
    /\ procs[p].st = "running"
    /\ procs' = [procs EXCEPT ![p].st = "exited", ![p].code = 0, ![p].path = "disabled"]
    /\ wr' = LatchProc(p)
    /\ UNCHANGED <<hvars, xvars, mains, monitors, wpc, kMaxRestarts, kWindow, backoff, backoff_max, backoff0, hParent, hStop,
                   exit_code, intentional, restarts, nSpawnFail, stopSet, marker, history, now>>

\* crash, kill, or an early return of main (already running, hook failed to
\* start): no marker is written on these paths
MainDie(p) ==
    /\ procs[p].st \in {"running", "exiting"}
    /\ \E c \in ExitCodes :
          /\ procs[p].st = "exiting" => c # 0
          /\ procs' = [procs EXCEPT ![p].st = "exited", ![p].code = c]
    /\ wr' = LatchProc(p)
    /\ UNCHANGED <<hvars, xvars, mains, monitors, wpc, kMaxRestarts, kWindow, backoff, backoff_max, backoff0, hParent, hStop,
                   exit_code, intentional, restarts, nSpawnFail, stopSet, marker, history, now>>

\* stop_monitor_graceful (or an operator): SetEvent on the named stop event
SetStop ==
    /\ wpc \notin {"Start", "Done"}
    /\ ~stopSet
    /\ stopSet' = TRUE
    /\ wr' = LatchStop
    /\ UNCHANGED <<hvars, xvars, mains, monitors, wpc, kMaxRestarts, kWindow, backoff, backoff_max, backoff0, hParent, hStop,
                   exit_code, intentional, restarts, nSpawnFail, marker, history, now, procs>>

\* mutant: a child that has run for a while resets the backoff
Tick_ResetsBackoff ==
    /\ wpc = "BlockedChild"
    /\ \E d \in TimeSteps :
          /\ now + d <= Epoch0 + MaxNow
          /\ now' = now + d
    /\ backoff' = backoff0
    /\ UNCHANGED <<hvars, xvars, mains, monitors, wpc, kMaxRestarts, kWindow, backoff_max, backoff0, hParent, hStop, wr,
                   exit_code, intentional, restarts, nSpawnFail, stopSet, marker, history, procs>>
\* time passes while the monitor is blocked on a child
Tick ==
    /\ wpc = "BlockedChild"
    /\ \E d \in TimeSteps :
          /\ now + d <= Epoch0 + MaxNow
          /\ now' = now + d
    /\ UNCHANGED <<hvars, xvars, mains, monitors, wpc, kMaxRestarts, kWindow, backoff, backoff_max, backoff0, hParent, hStop, wr,
                   exit_code, intentional, restarts, nSpawnFail, stopSet, marker, history, procs>>

(***************************************************************************)
(* run_monitor                                                             *)
(***************************************************************************)

\* OpenProcess(parent) and CreateEventW(stop): either may fail
MonitorOpen ==
    /\ wpc = "Start"
    /\ \E okParent \in BOOLEAN, okStop \in BOOLEAN :
          /\ hParent' = okParent
          /\ hStop' = okStop
          /\ wpc' = IF okParent THEN "WaitParent" ELSE "LoadHistory"
    /\ UNCHANGED <<hvars, xvars, mains, monitors, kMaxRestarts, kWindow, backoff, backoff_max, backoff0, wr,
                   exit_code, intentional, restarts, nSpawnFail, stopSet, marker, history, now, procs>>

\* mutant: the stop event is not polled after the parent wait
WaitParent_NoStopPoll ==
    /\ wpc = "WaitParent"
    /\ \/ ~hStop
       \/ Exited(1)
       \/ hStop /\ stopSet
    /\ wpc' = "LoadHistory"
    /\ UNCHANGED <<hvars, xvars, mains, monitors, kMaxRestarts, kWindow, backoff, backoff_max, backoff0, hParent, hStop, wr,
                   exit_code, intentional, restarts, nSpawnFail, stopSet, marker, history, now, procs>>

\* mutant: the parent wait is on the process handle alone
WaitParent_ParentOnly ==
    /\ wpc = "WaitParent"
    /\ Exited(1)
    /\ wpc' = IF hStop /\ stopSet THEN "Done" ELSE "LoadHistory"
    /\ UNCHANGED <<hvars, xvars, mains, monitors, kMaxRestarts, kWindow, backoff, backoff_max, backoff0, hParent, hStop, wr,
                   exit_code, intentional, restarts, nSpawnFail, stopSet, marker, history, now, procs>>

\* WaitForMultipleObjects({hParent, hStop}) returns when either is signaled,
\* or at once with WAIT_FAILED when hStop is NULL; then hStop is polled
WaitParent ==
    /\ wpc = "WaitParent"
    /\ \/ ~hStop
       \/ Exited(1)
       \/ hStop /\ stopSet
    /\ wpc' = IF hStop /\ stopSet THEN "Done" ELSE "LoadHistory"
    /\ UNCHANGED <<hvars, xvars, mains, monitors, kMaxRestarts, kWindow, backoff, backoff_max, backoff0, hParent, hStop, wr,
                   exit_code, intentional, restarts, nSpawnFail, stopSet, marker, history, now, procs>>

\* mutant: the monitor starts with an empty list whatever the file holds
LoadHistory_Forget ==
    /\ wpc = "LoadHistory"
    /\ restarts' = <<>>
    /\ wpc' = "LoopTop"
    /\ UNCHANGED <<hvars, xvars, mains, monitors, kMaxRestarts, kWindow, backoff, backoff_max, backoff0, hParent, hStop, wr,
                   exit_code, intentional, nSpawnFail, stopSet, marker, history, now, procs>>
\* restarts = load_restart_history(history_path)
LoadHistory ==
    /\ wpc = "LoadHistory"
    /\ restarts' = load_restart_history(history)
    /\ wpc' = "LoopTop"
    /\ UNCHANGED <<hvars, xvars, mains, monitors, kMaxRestarts, kWindow, backoff, backoff_max, backoff0, hParent, hStop, wr,
                   exit_code, intentional, nSpawnFail, stopSet, marker, history, now, procs>>

\* mutant: the marker is not deleted at the top of the loop
LoopTop_KeepMarker ==
    /\ wpc = "LoopTop"
    /\ LET kept == SelectSeqMs(restarts, now, kWindow) IN
          /\ restarts' = kept
          /\ history' = IF Len(kept) # Len(restarts) THEN save_restart_history(kept) ELSE history
          /\ wpc' = IF Len(kept) >= kMaxRestarts THEN "Throttle" ELSE "Spawn"
    /\ UNCHANGED <<hvars, xvars, mains, monitors, kMaxRestarts, kWindow, backoff, backoff_max, backoff0, hParent, hStop, wr,
                   exit_code, intentional, nSpawnFail, stopSet, now, procs, marker>>

\* top of the loop: delete a stale marker, prune, persist, rate check
LoopTop ==
    /\ wpc = "LoopTop"
    /\ marker' = FALSE
    /\ LET kept == SelectSeqMs(restarts, now, kWindow) IN
          /\ restarts' = kept
          /\ history' = IF Len(kept) # Len(restarts) THEN save_restart_history(kept) ELSE history
          /\ wpc' = IF Len(kept) >= kMaxRestarts THEN "Throttle" ELSE "Spawn"
    /\ UNCHANGED <<hvars, xvars, mains, monitors, kMaxRestarts, kWindow, backoff, backoff_max, backoff0, hParent, hStop, wr,
                   exit_code, intentional, nSpawnFail, stopSet, now, procs>>

\* std::this_thread::sleep_for(kWindow); continue
Throttle ==
    /\ wpc = "Throttle"
    /\ now + kWindow <= Epoch0 + MaxNow
    /\ now' = now + kWindow
    /\ wpc' = "LoopTop"
    /\ UNCHANGED <<hvars, xvars, mains, monitors, kMaxRestarts, kWindow, backoff, backoff_max, backoff0, hParent, hStop, wr,
                   exit_code, intentional, restarts, nSpawnFail, stopSet, marker, history, procs>>

\* spawn_child succeeded: a new main process runs
SpawnOk ==
    /\ wpc = "Spawn"
    /\ Len(procs) < MaxProcs
    /\ procs' = Append(procs, NewProc)
    /\ wpc' = "WaitChild"
    /\ wr' = "none"
    /\ exit_code' = 0
    /\ UNCHANGED <<hvars, xvars, mains, monitors, kMaxRestarts, kWindow, backoff, backoff_max, backoff0, hParent, hStop,
                   intentional, restarts, nSpawnFail, stopSet, marker, history, now>>

\* mutant: a failed spawn is recorded as a restart
SpawnFail_Records ==
    /\ wpc = "Spawn"
    /\ nSpawnFail < MaxSpawnFail
    /\ nSpawnFail' = nSpawnFail + 1
    /\ restarts' = Append(restarts, now)
    /\ wpc' = "SpawnFailSleep"
    /\ UNCHANGED <<hvars, xvars, mains, monitors, kMaxRestarts, kWindow, backoff, backoff_max, backoff0, hParent, hStop, wr,
                   exit_code, intentional, stopSet, marker, history, now, procs>>
\* mutant: a failed spawn ends the monitor
SpawnFail_Fatal ==
    /\ wpc = "Spawn"
    /\ nSpawnFail < MaxSpawnFail
    /\ nSpawnFail' = nSpawnFail + 1
    /\ wpc' = "Done"
    /\ UNCHANGED <<hvars, xvars, mains, monitors, kMaxRestarts, kWindow, backoff, backoff_max, backoff0, hParent, hStop, wr,
                   exit_code, intentional, restarts, stopSet, marker, history, now, procs>>

\* spawn_child failed (CreateProcessW refused)
SpawnFail ==
    /\ wpc = "Spawn"
    /\ nSpawnFail < MaxSpawnFail
    /\ nSpawnFail' = nSpawnFail + 1
    /\ wpc' = "SpawnFailSleep"
    /\ UNCHANGED <<hvars, xvars, mains, monitors, kMaxRestarts, kWindow, backoff, backoff_max, backoff0, hParent, hStop, wr,
                   exit_code, intentional, restarts, stopSet, marker, history, now, procs>>

\* sleep_for(backoff); backoff = min(backoff * 2, backoff_max)
BackoffSleep(from) ==
    /\ wpc = from
    /\ now + backoff <= Epoch0 + MaxNow
    /\ now' = now + backoff
    /\ backoff' = Min(backoff * 2, backoff_max)
    /\ wpc' = "LoopTop"
    /\ UNCHANGED <<hvars, xvars, mains, monitors, kMaxRestarts, kWindow, backoff_max, backoff0, hParent, hStop, wr,
                   exit_code, intentional, restarts, nSpawnFail, stopSet, marker, history, procs>>

SpawnFailSleep == BackoffSleep("SpawnFailSleep")

CrashSleep == BackoffSleep("CrashSleep")

\* the call of WaitForMultipleObjects({pi.hProcess, hStop}): WAIT_FAILED when
\* hStop is NULL, the lowest signaled index when something is signaled
\* already, otherwise the thread blocks
WaitChild ==
    /\ wpc = "WaitChild"
    /\ wr' = IF ~hStop THEN "failed"
             ELSE IF Exited(Child) THEN "proc"
             ELSE IF stopSet THEN "stop"
             ELSE "none"
    /\ wpc' = "BlockedChild"
    /\ UNCHANGED <<hvars, xvars, mains, monitors, kMaxRestarts, kWindow, backoff, backoff_max, backoff0, hParent, hStop,
                   exit_code, intentional, restarts, nSpawnFail, stopSet, marker, history, now, procs>>

\* wr == WAIT_OBJECT_0 + 1: stop requested
ChildWaitStop ==
    /\ wpc = "BlockedChild"
    /\ wr = "stop"
    /\ history' = <<>>
    /\ wpc' = "Done"
    /\ UNCHANGED <<hvars, xvars, mains, monitors, kMaxRestarts, kWindow, backoff, backoff_max, backoff0, hParent, hStop, wr,
                   exit_code, intentional, restarts, nSpawnFail, stopSet, marker, now, procs>>

\* GetExitCodeProcess: the exit code, STILL_ACTIVE for a process that has not
\* exited; when the call fails the monitor takes 1
exit_code_of(p, queryOk) == IF queryOk THEN procs[p].code ELSE 1

\* mutant: && in place of ||
IsClean_And(code, intent) == code = 0 /\ intent

\* exit_code == 0 || intentional
IsClean(code, intent) == code = 0 \/ intent

\* the child wait returned for the process (or failed): read the exit code,
\* look for (and delete) the marker, stop on a clean exit, else record the
\* restart and persist it
Classify ==
    /\ wpc = "BlockedChild"
    /\ wr \in {"proc", "failed"}
    /\ \E queryOk \in BOOLEAN : exit_code' = exit_code_of(Child, queryOk)
    /\ intentional' = marker
    /\ marker' = FALSE
    /\ IF IsClean(exit_code', intentional')
       THEN /\ history' = <<>>
            /\ wpc' = "Done"
            /\ UNCHANGED restarts
       ELSE /\ restarts' = Append(restarts, now)
            /\ history' = save_restart_history(restarts')
            /\ wpc' = "CrashSleep"
    /\ UNCHANGED <<hvars, xvars, mains, monitors, kMaxRestarts, kWindow, backoff, backoff_max, backoff0, hParent, hStop, wr,
                   nSpawnFail, stopSet, now, procs>>

MainStep == \E p \in 1..Len(procs) : MainWriteMarker(p) \/ MainExit(p) \/ MainDisabled(p) \/ MainDie(p)

WatchdogStep ==
    \/ MonitorOpen
    \/ WaitParent
    \/ LoadHistory
    \/ LoopTop
    \/ Throttle
    \/ SpawnOk
    \/ SpawnFail
    \/ SpawnFailSleep
    \/ WaitChild
    \/ ChildWaitStop
    \/ Classify
    \/ CrashSleep

NextWatchdog ==
    \/ MainStep
    \/ SetStop
    \/ Tick
    \/ WatchdogStep

\* the hook worker before start() is called
LIdle ==
    /\ g_hookRunning = FALSE
    /\ mouse_hook = FALSE
    /\ g_hookThread = FALSE
    /\ g_hookThreadId = FALSE
    /\ ready = "unset"
    /\ hookOk = FALSE
    /\ quit = FALSE
    /\ tpc = "none"
    /\ cpc = "idle"
    /\ startRet = "none"
    /\ nInstall = 0
    /\ nCalls = 0

\* nothing else under study
XIdle == LIdle /\ monitor_running = "none" /\ config_file = <<>> /\ loaded = <<>>
\* no session under study
SIdle == mains = <<>> /\ monitors = <<>>

\* the monitor starts; the hook stays as installed
InitWatchdog == WInit /\ HIdle /\ SIdle /\ XIdle

SpecWatchdog == InitWatchdog /\ [][NextWatchdog]_vars

\* fairness: the monitor is an ordinary OS process that keeps being scheduled
LiveWatchdog == InitWatchdog /\ [][NextWatchdog]_vars /\ WF_vars(WatchdogStep)

\* the monitor while the hook is under study: not started, defaults
WIdle ==
    /\ wpc = "Start"
    /\ kMaxRestarts = 5
    /\ kWindow = 60000
    /\ backoff0 = 1000
    /\ backoff = 1000
    /\ backoff_max = 30000
    /\ hParent = FALSE
    /\ hStop = FALSE
    /\ wr = "none"
    /\ exit_code = 0
    /\ intentional = FALSE
    /\ restarts = <<>>
    /\ nSpawnFail = 0
    /\ stopSet = FALSE
    /\ marker = FALSE
    /\ history = <<>>
    /\ now = Epoch0
    /\ procs = <<NewProc>>

\* the hook is installed; the monitor is not started
InitHook == HInit /\ WIdle /\ SIdle /\ XIdle

SpecHook == InitHook /\ [][NextHook]_vars

\* the hook under an enabled configuration that stays as applied (events of
\* other processes ignored, the default), the buttons observed from the
\* first event on
BInit ==
    /\ g_enabled = TRUE
    /\ g_ignore_injected = TRUE
    /\ \E m \in ModifierSettings :
          /\ g_modifier_combo = m.combo
          /\ modifier_vk = m.vk
    /\ g_trigger \in Triggers
    /\ g_clickTimeMs \in ClickTimes
    /\ g_moveRadius \in MoveRadii
    /\ tick \in InitialTicks
    /\ wire = NoWire
    /\ HookStart

InitButtons == BInit /\ WIdle /\ SIdle /\ XIdle

SpecButtons == InitButtons /\ [][NextHook]_vars

(***************************************************************************)
(* The callback on a virtual desktop that uses the whole range of signed   *)
(* 16-bit coordinates: gestures whose points lie far apart.                *)
(***************************************************************************)
\* corners of the virtual desktop and two points 46340 and 46341 pixels to
\* the right of its left edge (46340 * 46340 <= INT_MAX < 46341 * 46341)
DesktopPoints ==
    {<<-32768, -32768>>, <<0, 0>>, <<13572, -32768>>, <<13573, -32768>>, <<32767, 32767>>}

\* left-button and move events of the device at these points
DesktopEvents ==
    {Event(m, 0, p, FALSE, FALSE, TRUE) : m \in {"LDOWN", "MOVE", "LUP"}, p \in DesktopPoints}

\* the device produces a pointer event somewhere on the desktop
DesktopEvent ==
    /\ \E e \in DesktopEvents, ub \in OverflowOutcomes : Callback(e, 1, queue, ub)
    /\ UNCHANGED <<gest, wire, fin, held>>
    /\ UNCHANGED <<wvars, xvars>>

NextDesktop ==
    \/ DesktopEvent
    \/ KeyChange

\* the default configuration applied, gestures and buttons not observed
DInit ==
    /\ g_enabled = TRUE
    /\ g_ignore_injected = TRUE
    /\ g_modifier_combo = <<>>
    /\ modifier_vk = VK_MENU
    /\ g_trigger = "Left"
    /\ g_clickTimeMs \in ClickTimes
    /\ g_moveRadius \in MoveRadii
    /\ tick \in InitialTicks
    /\ wire = VoidWire
    /\ HookStart

InitDesktop == DInit /\ WIdle /\ SIdle /\ XIdle

SpecDesktop == InitDesktop /\ [][NextDesktop]_vars

(***************************************************************************)
(* Hot reload: apply_hook_config on the tray or watcher thread while the   *)
(* callback runs on the hook thread.  The globals are written one after    *)
(* the other with no lock; the callback may run between any two writes.    *)
(***************************************************************************)
\* the configuration the callback reads at this moment
CurrentCfg ==
    [enabled |-> g_enabled, ignore_injected |-> g_ignore_injected, combo |-> g_modifier_combo,
     vk |-> modifier_vk, trigger |-> g_trigger, click_time_ms |-> g_clickTimeMs,
     move_radius_px |-> g_moveRadius]

\* Config{}: the defaults
DefaultCfg ==
    [enabled |-> TRUE, ignore_injected |-> TRUE, combo |-> <<>>, vk |-> VK_MENU,
     trigger |-> "Left", click_time_ms |-> 250, move_radius_px |-> 6]

\* configurations in force before the call
ReloadFrom ==
    {DefaultCfg, [DefaultCfg EXCEPT !.ignore_injected = FALSE, !.combo = <<VK_MENU, VK_CONTROL>>]}

\* what the callers pass: the tray toggles and steps one field of its copy,
\* the watcher passes whatever config::load read from the edited file
ReloadTo(c) ==
    { [c EXCEPT !.enabled = ~c.enabled],
      [c EXCEPT !.click_time_ms = c.click_time_ms + 10],
      [c EXCEPT !.combo = IF c.combo = <<>> THEN <<VK_MENU, VK_CONTROL>> ELSE <<>>,
                !.trigger = "X1"],
      [c EXCEPT !.vk = VK_CONTROL, !.combo = <<VK_CONTROL>>, !.move_radius_px = 0] }

\* what a read of g_modifier_combo may find while the vector is being
\* assigned on the other thread: the old or the new elements, or a part
TornCombos(o, n) ==
    {o, n, <<>>} \cup {SubSeq(n, 1, k) : k \in 1..Len(n)} \cup {SubSeq(o, 1, k) : k \in 1..Len(o)}

ApplyToGlobals(c) ==
    /\ g_enabled' = c.enabled
    /\ g_ignore_injected' = c.ignore_injected
    /\ g_modifier_combo' = c.combo
    /\ modifier_vk' = c.vk
    /\ g_trigger' = c.trigger
    /\ g_clickTimeMs' = c.click_time_ms
    /\ g_moveRadius' = c.move_radius_px

\* a thread enters apply_hook_config(cfg)
ApplyBegin ==
    /\ apc = 0
    /\ \E c \in ReloadTo(CurrentCfg) :
          /\ newCfg' = c
          /\ oldCfg' = CurrentCfg
    /\ apc' = 1
    /\ UNCHANGED <<g_enabled, g_ignore_injected, g_modifier_combo, modifier_vk, g_trigger,
                   g_clickTimeMs, g_moveRadius, g_tracking, g_startPt, g_downTick, tick, keys,
                   queue, ev, ret, sent, nHandled, held, gest, wire, fin>>
    /\ UNCHANGED <<wvars, xvars>>

\* the next store of apply_hook_config, in the order of the source; the
\* vector assignment takes two steps, the vector being torn in between
ApplyWrite ==
    /\ apc \in 1..8
    /\ \E torn \in TornCombos(oldCfg.combo, newCfg.combo) :
          LET c == CurrentCfg IN
          ApplyToGlobals(
              CASE apc = 1 -> [c EXCEPT !.vk = newCfg.vk]
                [] apc = 2 -> [c EXCEPT !.combo = torn]
                [] apc = 3 -> [c EXCEPT !.combo = newCfg.combo]
                [] apc = 4 -> [c EXCEPT !.enabled = newCfg.enabled]
                [] apc = 5 -> [c EXCEPT !.ignore_injected = newCfg.ignore_injected]
                [] apc = 6 -> [c EXCEPT !.click_time_ms = newCfg.click_time_ms]
                [] apc = 7 -> [c EXCEPT !.move_radius_px = newCfg.move_radius_px]
                [] apc = 8 -> [c EXCEPT !.trigger = newCfg.trigger])
    /\ apc' = apc + 1
    /\ UNCHANGED <<g_tracking, g_startPt, g_downTick, tick, keys, queue, ev, ret, sent, nHandled,
                   held, gest, wire, fin, newCfg, oldCfg>>
    /\ UNCHANGED <<wvars, xvars>>

\* pointer events tried around a reload: both trigger buttons and moves
\* from a device, one injected down
ReloadEvents ==
    {Event(m, 0, <<0, 0>>, FALSE, FALSE, TRUE) : m \in {"LDOWN", "LUP"}} \cup
    {Event(m, XBUTTON1, <<0, 0>>, FALSE, FALSE, TRUE) : m \in {"XDOWN", "XUP"}} \cup
    {Event("MOVE", 0, p, FALSE, FALSE, TRUE) : p \in {<<0, 0>>, <<4, 5>>}} \cup
    {Event("LDOWN", 0, InjectedPoint, TRUE, FALSE, TRUE)}

\* ms between two callback invocations around a reload
ReloadDeltas == {1, 260}

ReloadMouseEvent ==
    /\ \E e \in ReloadEvents, d \in ReloadDeltas : Invoke(e, d, queue)
    /\ UNCHANGED <<wvars, xvars>>

NextReload ==
    \/ ApplyBegin
    \/ ApplyWrite
    \/ ReloadMouseEvent
    \/ OwnEvent
    \/ KeyChange

\* the hook runs under one of the starting configurations
RInit ==
    /\ \E c \in ReloadFrom :
          /\ g_enabled = c.enabled
          /\ g_ignore_injected = c.ignore_injected
          /\ g_modifier_combo = c.combo
          /\ modifier_vk = c.vk
          /\ g_trigger = c.trigger
          /\ g_clickTimeMs = c.click_time_ms
          /\ g_moveRadius = c.move_radius_px
    /\ tick \in InitialTicks
    /\ wire = NoWire
    /\ HookStart

InitReload == RInit /\ WIdle /\ SIdle /\ XIdle

SpecReload == InitReload /\ [][NextReload]_vars

(***************************************************************************)
(* Tuning of click_time_ms and move_radius_px: config::load at startup and *)
(* on hot reload, the four tray menu commands in between.  The tray keeps  *)
(* its own copy ctx->cfg, which every command applies at once and the      *)
(* watcher replaces together with the hook's values, so one value each     *)
(* stands for both.                                                        *)
(***************************************************************************)
\* Config defaults
DefaultClickTimeMs == 250
DefaultMoveRadiusPx == 6

\* load: if (v > 0 && v < 5000) cfg.click_time_ms = v
accept_click_time_ms(v, cur) == IF v > 0 /\ v < 5000 THEN v ELSE cur

\* load: if (v >= 0 && v < 100) cfg.move_radius_px = v
accept_move_radius_px(v, cur) == IF v >= 0 /\ v < 100 THEN v ELSE cur

\* values config::load returns for the numbers a configuration file may hold
LoadedClickTimes == {accept_click_time_ms(v, DefaultClickTimeMs) : v \in {0, 1, 250, 4999, 5000}}
LoadedMoveRadii == {accept_move_radius_px(v, DefaultMoveRadiusPx) : v \in {-1, 0, 6, 99, 100}}

TuneFrame == UNCHANGED <<g_enabled, g_ignore_injected, g_modifier_combo, modifier_vk, g_trigger,
                         g_tracking, g_startPt, g_downTick, tick, keys, queue, ev, ret, sent,
                         nHandled, held, gest, wire, fin, apc, newCfg, oldCfg, wvars, xvars>>

\* kMenuClickTimeInc: min<int>(click_time_ms + 10, 5000), apply_hook_config
TrayClickTimeInc ==
    /\ g_clickTimeMs' = Min(g_clickTimeMs + 10, 5000)
    /\ g_clickTimeMs' # g_clickTimeMs
    /\ UNCHANGED g_moveRadius
    /\ TuneFrame

\* kMenuClickTimeDec: max<int>(click_time_ms - 10, 10), apply_hook_config
TrayClickTimeDec ==
    /\ g_clickTimeMs' = Max(g_clickTimeMs - 10, 10)
    /\ g_clickTimeMs' # g_clickTimeMs
    /\ UNCHANGED g_moveRadius
    /\ TuneFrame

\* kMenuMoveRadiusInc: min<int>(move_radius_px + 1, 100), apply_hook_config
TrayMoveRadiusInc ==
    /\ g_moveRadius' = Min(g_moveRadius + 1, 100)
    /\ g_moveRadius' # g_moveRadius
    /\ UNCHANGED g_clickTimeMs
    /\ TuneFrame

\* kMenuMoveRadiusDec: max<int>(move_radius_px - 1, 0), apply_hook_config
TrayMoveRadiusDec ==
    /\ g_moveRadius' = Max(g_moveRadius - 1, 0)
    /\ g_moveRadius' # g_moveRadius
    /\ UNCHANGED g_clickTimeMs
    /\ TuneFrame

\* the watcher thread: newCfg = load(config_path), apply_hook_config(newCfg)
WatcherRetune ==
    /\ g_clickTimeMs' \in LoadedClickTimes
    /\ g_moveRadius' \in LoadedMoveRadii
    /\ <<g_clickTimeMs', g_moveRadius'>> # <<g_clickTimeMs, g_moveRadius>>
    /\ TuneFrame

NextTune ==
    \/ TrayClickTimeInc
    \/ TrayClickTimeDec
    \/ TrayMoveRadiusInc
    \/ TrayMoveRadiusDec
    \/ WatcherRetune

\* main on first run: the default configuration is written, loaded and
\* applied; the file is edited later
TInit ==
    /\ g_enabled = TRUE
    /\ g_ignore_injected = TRUE
    /\ g_modifier_combo = <<>>
    /\ modifier_vk = VK_MENU
    /\ g_trigger = "Left"
    /\ g_clickTimeMs = accept_click_time_ms(DefaultClickTimeMs, DefaultClickTimeMs)
    /\ g_moveRadius = accept_move_radius_px(DefaultMoveRadiusPx, DefaultMoveRadiusPx)
    /\ tick = <<0, 0>>
    /\ wire = VoidWire
    /\ HookStart

InitTune == TInit /\ WIdle /\ SIdle /\ XIdle

SpecTune == InitTune /\ [][NextTune]_vars

(***************************************************************************)
(* config::load (config.cpp).  A string is a sequence of characters; the   *)
(* file is the sequence of its key=value lines, each already split at the  *)
(* first '=' with the key trimmed and lowercased.                          *)
(***************************************************************************)
\* lines of the configuration file
MaxLines == 2

VK_SHIFT == 16
VK_LWIN == 91
VK_ESCAPE == 27
VK_F12 == 123

Digits == {"0", "1", "2", "3", "4", "5", "6", "7", "8", "9"}

DigitVal(c) ==
    CASE c = "0" -> 0 [] c = "1" -> 1 [] c = "2" -> 2 [] c = "3" -> 3 [] c = "4" -> 4
      [] c = "5" -> 5 [] c = "6" -> 6 [] c = "7" -> 7 [] c = "8" -> 8 [] c = "9" -> 9

\* std::tolower on the letters that occur in the files of the model
LowerChar(c) ==
    CASE c = "A" -> "a" [] c = "C" -> "c" [] c = "E" -> "e" [] c = "F" -> "f" [] c = "L" -> "l"
      [] c = "R" -> "r" [] c = "S" -> "s" [] c = "T" -> "t" [] OTHER -> c

to_lower(s) == [i \in 1..Len(s) |-> LowerChar(s[i])]

\* std::isspace holds of the characters " ", "\t", "\r", "\n" a line can hold
RECURSIVE TrimLeft(_)
TrimLeft(s) == IF s # <<>> /\ Head(s) \in {" ", "\t", "\r", "\n"} THEN TrimLeft(Tail(s)) ELSE s

RECURSIVE TrimRight(_)
TrimRight(s) == IF s # <<>> /\ s[Len(s)] \in {" ", "\t", "\r", "\n"} THEN TrimRight(SubSeq(s, 1, Len(s) - 1)) ELSE s

\* trim: the text between the first and the last non-blank character
trim(s) == TrimRight(TrimLeft(s))

\* the leading digits of s
RECURSIVE DigitPrefix(_)
DigitPrefix(s) ==
    IF s # <<>> /\ Head(s) \in Digits THEN <<Head(s)>> \o DigitPrefix(Tail(s)) ELSE <<>>

\* strtoul/strtol digit loop on a 32-bit unsigned long, the accumulator as
\* <<high word, low word>>; ovf is set once the value passes 2^32 - 1
RECURSIVE Accumulate(_, _)
Accumulate(ds, acc) ==
    IF ds = <<>> \/ acc.ovf THEN acc
    ELSE LET lo == acc.v[2] * 10 + DigitVal(Head(ds))
             hi == acc.v[1] * 10 + (lo \div W16)
         IN  Accumulate(Tail(ds), [v |-> <<hi % W16, lo % W16>>, ovf |-> hi >= W16])

\* sign and digits as strtoul and strtol read them: blanks, an optional sign,
\* then digits up to the first other character
Scan(s) ==
    LET t == TrimLeft(s)
        signed == t # <<>> /\ Head(t) \in {"+", "-"}
        ds == DigitPrefix(IF signed THEN Tail(t) ELSE t)
    IN  [neg |-> signed /\ Head(t) = "-", none |-> ds = <<>>,
         mag |-> Accumulate(ds, [v |-> <<0, 0>>, ovf |-> FALSE])]

\* std::stoul, unsigned long of 32 bits: throws (ok = FALSE) without digits
\* or past ULONG_MAX; a minus sign negates the value in the unsigned type
stoul(s) ==
    LET sc == Scan(s) IN
    IF sc.none \/ sc.mag.ovf THEN [ok |-> FALSE, v |-> <<0, 0>>]
    ELSE [ok |-> TRUE, v |-> IF sc.neg THEN DwSub(<<0, 0>>, sc.mag.v) ELSE sc.mag.v]

\* std::stoi: throws without digits or outside the range of int
stoi(s) ==
    LET sc == Scan(s)
        big == sc.mag.ovf \/ sc.mag.v[1] >= 32768
    IN  IF sc.none \/ big THEN [ok |-> FALSE, v |-> 0]
        ELSE LET m == sc.mag.v[1] * W16 + sc.mag.v[2]
             IN  [ok |-> TRUE, v |-> IF sc.neg THEN 0 - m ELSE m]

\* names of keys as vk_from_str compares them
vk_from_str(name) ==
    LET n == to_lower(name) IN
    CASE n = <<"a", "l", "t">> -> VK_MENU
      [] n = <<"c", "t", "r", "l">> -> VK_CONTROL
      [] n = <<"c", "o", "n", "t", "r", "o", "l">> -> VK_CONTROL
      [] n = <<"s", "h", "i", "f", "t">> -> VK_SHIFT
      [] n = <<"w", "i", "n">> -> VK_LWIN
      [] n = <<"l", "w", "i", "n">> -> VK_LWIN
      [] n = <<"e", "s", "c">> -> VK_ESCAPE
      [] n = <<"e", "s", "c", "a", "p", "e">> -> VK_ESCAPE
      [] n = <<"f", "1", "2">> -> VK_F12
      [] OTHER -> 0

\* parse_modifier_combo: the loop over val[0..size], the end taken as ','
RECURSIVE parse_modifier_combo(_, _, _, _)
parse_modifier_combo(val, i, tmp, out) ==
    IF i > Len(val) + 1 THEN out
    ELSE LET c == IF i <= Len(val) THEN val[i] ELSE "," IN
         IF c \in {"+", ","}
         THEN LET tok == to_lower(trim(tmp))
                  vk == IF tok = <<>> THEN 0 ELSE vk_from_str(tok)
              IN  parse_modifier_combo(val, i + 1, <<>>, IF vk # 0 THEN Append(out, vk) ELSE out)
         ELSE parse_modifier_combo(val, i + 1, Append(tmp, c), out)

\* vall == "1" || vall == "true" || vall == "yes"
IsTrue(vall) == vall \in {<<"1">>, <<"t", "r", "u", "e">>, <<"y", "e", "s">>}

\* Config as default-constructed, the fields that the model follows
DefaultConfig ==
    [enabled |-> TRUE, click_time_ms |-> DefaultClickTimeMs, move_radius_px |-> DefaultMoveRadiusPx,
     modifier_combo_vks |-> <<>>, modifier_vk |-> VK_MENU]

\* the body of load's loop for one line
load_line(cfg, line) ==
    LET val == trim(line.val)
        vall == to_lower(val)
    IN  CASE line.key = "enabled" -> [cfg EXCEPT !.enabled = IsTrue(vall)]
          [] line.key = "modifier" ->
                LET mods == parse_modifier_combo(val, 1, <<>>, <<>>)
                    vk == vk_from_str(val)
                IN  IF mods # <<>>
                    THEN [cfg EXCEPT !.modifier_combo_vks = mods, !.modifier_vk = mods[1]]
                    ELSE IF vk # 0 THEN [cfg EXCEPT !.modifier_vk = vk] ELSE cfg
          [] line.key = "click_time_ms" ->
                LET r == stoul(vall) IN
                IF r.ok /\ r.v[1] = 0 /\ accept_click_time_ms(r.v[2], 0) # 0
                THEN [cfg EXCEPT !.click_time_ms = accept_click_time_ms(r.v[2], cfg.click_time_ms)]
                ELSE cfg
          [] line.key = "move_radius_px" ->
                LET r == stoi(vall) IN
                IF r.ok
                THEN [cfg EXCEPT !.move_radius_px = accept_move_radius_px(r.v, cfg.move_radius_px)]
                ELSE cfg
          [] OTHER -> cfg

RECURSIVE load_lines(_, _)
load_lines(cfg, lines) ==
    IF lines = <<>> THEN cfg ELSE load_lines(load_line(cfg, Head(lines)), Tail(lines))

\* load(path) for a file that can be opened
load(lines) == load_lines(DefaultConfig, lines)

\* values written for click_time_ms
ClickTimeTexts ==
    { <<"1", "0", "0">>, <<"4", "9", "9", "9">>, <<"5", "0", "0", "0">>, <<"0">>,
      <<"9", "9", "9", "9", "9">>, <<"-", "2">>, <<"+", "5">>, <<"a", "b", "c">>, <<>>,
      <<"1", "2", "m", "s">>,
      <<"-", "4", "2", "9", "4", "9", "6", "7", "2", "9", "5">>,
      <<"4", "2", "9", "4", "9", "6", "7", "2", "9", "7">> }

\* values written for move_radius_px
MoveRadiusTexts ==
    { <<"0">>, <<"9", "9">>, <<"1", "0", "0">>, <<"-", "2">>, <<"7", "p", "x">>, <<>>,
      <<" ", "8", " ">>, <<"4", "2", "9", "4", "9", "6", "7", "2", "9", "7">> }

\* values written for enabled
EnabledTexts == { <<"t", "r", "u", "e">>, <<"F", "a", "L", "s", "E">>, <<"1">> }

\* values written for modifier
ModifierTexts ==
    { <<"A", "L", "T">>, <<"a", "l", "t", "+", "c", "t", "r", "l">>,
      <<"a", "l", "t", " ", ",", " ", "c", "t", "r", "l">>,
      <<"A", "L", "T", "+", "a", "l", "t">>, <<"x">>, <<"C", "T", "R", "L", "+", "x">>, <<>> }

FileLines ==
    {[key |-> "click_time_ms", val |-> v] : v \in ClickTimeTexts}
        \cup {[key |-> "move_radius_px", val |-> v] : v \in MoveRadiusTexts}
        \cup {[key |-> "enabled", val |-> v] : v \in EnabledTexts}
        \cup {[key |-> "modifier", val |-> v] : v \in ModifierTexts}
        \cup {[key |-> "show_tray", val |-> <<"1">>]}

\* cfg = arc::config::load(config_path)
Load ==
    /\ loaded = <<>>
    /\ loaded' = <<load(config_file)>>
    /\ UNCHANGED <<wvars, hvars, lvars, monitor_running, config_file>>

\* the file is edited before the next load
EditFile ==
    /\ loaded # <<>>
    /\ \E n \in 1..MaxLines : config_file' \in [1..n -> FileLines]
    /\ config_file' # config_file
    /\ loaded' = <<>>
    /\ UNCHANGED <<wvars, hvars, lvars, monitor_running>>

NextLoad == Load \/ EditFile

\* a configuration file of at most one line, not loaded yet
FInit ==
    /\ config_file \in UNION {[1..n -> FileLines] : n \in 0..1}
    /\ loaded = <<>>

InitLoad == FInit /\ LIdle /\ monitor_running = "none" /\ WIdle /\ HIdle /\ SIdle

SpecLoad == InitLoad /\ [][NextLoad]_vars



(***************************************************************************)
(* The session: which process launches a monitor, and when (main.cpp,      *)
(* tray.cpp, spawn_monitor, stop_monitor_graceful).  run_monitor is taken  *)
(* here by its outline: wait for the watched process, relaunch, stop.      *)
(***************************************************************************)
\* main-process instances per behaviour
MaxMains == 3
\* monitor processes per behaviour
MaxMonitors == 3

\* a main process: launched with --launched-by-monitor or not, the
\* persistence_enabled of the configuration it loaded, g_monitorPid
NewMain(byMon, persist) ==
    [st |-> "starting", clean |-> FALSE, launched_by_monitor |-> byMon,
     persistence_enabled |-> persist, g_monitorPid |-> 0]

\* a monitor started with --monitor --parent p: its stop event is named
\* after p; CreateEventW opens the event of that name if a live monitor of
\* p still holds it, signaled or not; it waits for p first
NewMonitor(p) ==
    [alive |-> TRUE, parent |-> p, watch |-> p,
     stop |-> \E k \in 1..Len(monitors) :
                 monitors[k].alive /\ monitors[k].parent = p /\ monitors[k].stop]

Alive == {k \in 1..Len(monitors) : monitors[k].alive}

SFrame == UNCHANGED <<hvars, lvars, fvars, wpc, kMaxRestarts, kWindow, backoff, backoff_max, backoff0, hParent,
                      hStop, wr, exit_code, intentional, restarts, nSpawnFail, stopSet, marker,
                      history, now, procs>>

\* a step of the session that reports no status
Quiet == monitor_running' = "none"

\* spawn_monitor called by main m: CreateProcessW may fail
spawn_monitor(m, ok) ==
    IF ok /\ Len(monitors) < MaxMonitors
    THEN /\ monitors' = Append(monitors, NewMonitor(m))
         /\ mains' = [mains EXCEPT ![m].st = "running", ![m].persistence_enabled = TRUE,
                                   ![m].g_monitorPid = Len(monitors) + 1]
    ELSE /\ monitors' = monitors
         /\ mains' = [mains EXCEPT ![m].st = "running", ![m].persistence_enabled = TRUE]

\* stop_monitor_graceful called by main m: the event named after m's own pid
\* is set, which the monitors started with --parent m hold; then the process
\* g_monitorPid is waited for and, past the timeout, terminated
stop_monitor_graceful(m) ==
    LET pid == mains[m].g_monitorPid IN
    /\ monitors' = [k \in 1..Len(monitors) |->
                       IF k = pid THEN [monitors[k] EXCEPT !.alive = FALSE, !.stop = TRUE]
                       ELSE IF monitors[k].parent = m /\ monitors[k].alive
                            THEN [monitors[k] EXCEPT !.stop = TRUE]
                            ELSE monitors[k]]
    /\ mains' = [mains EXCEPT ![m].persistence_enabled = FALSE,
                              ![m].g_monitorPid = IF pid # 0 /\ monitors[pid].alive THEN 0 ELSE pid]

\* main after hook::start(): the monitor is spawned when persistence is
\* enabled and the process was not launched by a monitor
MainStartup(m) ==
    /\ mains[m].st = "starting"
    /\ IF mains[m].persistence_enabled /\ ~mains[m].launched_by_monitor
       THEN \E ok \in BOOLEAN : spawn_monitor(m, ok)
       ELSE /\ mains' = [mains EXCEPT ![m].st = "running"]
            /\ UNCHANGED monitors
    /\ Quiet
    /\ SFrame

\* tray menu, kMenuTogglePersistence
TrayTogglePersistence(m) ==
    /\ mains[m].st = "running"
    /\ IF ~mains[m].persistence_enabled
       THEN \E ok \in BOOLEAN : spawn_monitor(m, ok)
       ELSE stop_monitor_graceful(m)
    /\ Quiet
    /\ SFrame

\* the watcher thread reloads the edited file: trayCtx.cfg = newCfg
WatcherReload(m) ==
    /\ mains[m].st = "running"
    /\ \E b \in BOOLEAN :
          /\ b # mains[m].persistence_enabled
          /\ mains' = [mains EXCEPT ![m].persistence_enabled = b]
    /\ UNCHANGED monitors
    /\ Quiet
    /\ SFrame

\* the main process ends: return 0 after write_intent_marker, or a crash
MainEnds(m) ==
    /\ mains[m].st = "running"
    /\ \E c \in BOOLEAN : mains' = [mains EXCEPT ![m].st = "exited", ![m].clean = c]
    /\ UNCHANGED monitors
    /\ Quiet
    /\ SFrame

\* run_monitor: the stop event is signaled, the monitor returns
MonitorStops(k) ==
    /\ monitors[k].alive /\ monitors[k].stop
    /\ monitors' = [monitors EXCEPT ![k].alive = FALSE]
    /\ UNCHANGED mains
    /\ Quiet
    /\ SFrame

\* run_monitor: the watched process has exited.  After the parent the loop
\* is entered whatever the exit was; after a child a clean exit ends the
\* monitor, any other relaunches the application with --launched-by-monitor
MonitorRelaunches(k) ==
    /\ monitors[k].alive /\ ~monitors[k].stop
    /\ mains[monitors[k].watch].st = "exited"
    /\ IF monitors[k].watch # monitors[k].parent /\ mains[monitors[k].watch].clean
       THEN /\ monitors' = [monitors EXCEPT ![k].alive = FALSE]
            /\ UNCHANGED mains
       ELSE /\ Len(mains) < MaxMains
            /\ \E persist \in BOOLEAN : mains' = Append(mains, NewMain(TRUE, persist))
            /\ monitors' = [monitors EXCEPT ![k].watch = Len(mains) + 1]
    /\ Quiet
    /\ SFrame

\* is_monitor_running() in a process whose g_monitorPid is pid: false for
\* 0, else whether that process is still active
is_monitor_running(pid) == IF pid = 0 THEN FALSE ELSE monitors[pid].alive

\* altrightclick --status: a process of its own, whose g_monitorPid is the
\* static initial value 0, prints monitor_running = is_monitor_running()
StatusQuery ==
    /\ LET g_monitorPid == 0 IN
          monitor_running' = IF is_monitor_running(g_monitorPid) THEN "true" ELSE "false"
    /\ UNCHANGED <<mains, monitors>>
    /\ SFrame

NextSession ==
    \/ \E m \in 1..Len(mains) : MainStartup(m)
    \/ \E m \in 1..Len(mains) : TrayTogglePersistence(m)
    \/ \E m \in 1..Len(mains) : WatcherReload(m)
    \/ \E m \in 1..Len(mains) : MainEnds(m)
    \/ \E k \in 1..Len(monitors) : MonitorStops(k)
    \/ \E k \in 1..Len(monitors) : MonitorRelaunches(k)
    \/ StatusQuery

\* the user launches the application
SInit ==
    /\ \E persist \in BOOLEAN : mains = <<NewMain(FALSE, persist)>>
    /\ monitors = <<>>

InitSession == SInit /\ WIdle /\ HIdle /\ XIdle

SpecSession == InitSession /\ [][NextSession]_vars

(***************************************************************************)
(* Hook worker lifecycle (hook.cpp: install, remove, start, stop).  One    *)
(* controller thread (main, or the service's worker) calls start() and     *)
(* stop() one after the other; the worker thread is the lambda of start(). *)
(***************************************************************************)
\* calls of start() and stop() the controller makes
MaxCalls == 5

LFrame == UNCHANGED <<wvars, hvars, monitor_running, fvars>>

\* the controller calls start()
StartCall ==
    /\ cpc = "idle"
    /\ nCalls < MaxCalls
    /\ nCalls' = nCalls + 1
    /\ cpc' = "start_check"
    /\ startRet' = "none"
    /\ nInstall' = 0
    /\ UNCHANGED <<g_hookRunning, mouse_hook, g_hookThread, g_hookThreadId, ready, hookOk, quit, tpc>>
    /\ LFrame

\* if (g_hookRunning.load()) return true; g_hookRunning.store(true)
StartCheck ==
    /\ cpc = "start_check"
    /\ IF g_hookRunning
       THEN /\ cpc' = "idle"
            /\ startRet' = "true"
            /\ UNCHANGED g_hookRunning
       ELSE /\ cpc' = "start_spawn"
            /\ g_hookRunning' = TRUE
            /\ UNCHANGED startRet
    /\ UNCHANGED <<mouse_hook, g_hookThread, g_hookThreadId, ready, hookOk, quit, tpc, nInstall, nCalls>>
    /\ LFrame

\* std::promise<bool> ready; g_hookThread = std::thread(...): assigning to a
\* joinable std::thread calls std::terminate
StartSpawn ==
    /\ cpc = "start_spawn"
    /\ IF g_hookThread
       THEN /\ cpc' = "terminated"
            /\ UNCHANGED <<g_hookThread, ready, tpc>>
       ELSE /\ cpc' = "start_get"
            /\ g_hookThread' = TRUE
            /\ ready' = "unset"
            /\ tpc' = "tid"
    /\ UNCHANGED <<g_hookRunning, mouse_hook, g_hookThreadId, hookOk, quit, startRet, nInstall, nCalls>>
    /\ LFrame

\* bool ok = fut.get(): blocks until the worker has set the promise
StartGet ==
    /\ cpc = "start_get"
    /\ ready # "unset"
    /\ IF ready = "ok"
       THEN /\ cpc' = "idle"
            /\ startRet' = "true"
       ELSE /\ cpc' = "start_join"
            /\ UNCHANGED startRet
    /\ UNCHANGED <<g_hookRunning, mouse_hook, g_hookThread, g_hookThreadId, ready, hookOk, quit, tpc,
                   nInstall, nCalls>>
    /\ LFrame

\* mutant: the failed worker is not waited for
StartJoin_NoWait ==
    /\ cpc = "start_join"
    /\ g_hookThread' = FALSE
    /\ cpc' = "idle"
    /\ startRet' = "false"
    /\ UNCHANGED <<g_hookRunning, mouse_hook, g_hookThreadId, ready, hookOk, quit, tpc, nInstall, nCalls>>
    /\ LFrame

\* if (!ok) { if (joinable) join(); } return ok: join blocks until the
\* worker thread has ended
StartJoin ==
    /\ cpc = "start_join"
    /\ g_hookThread => tpc = "ended"
    /\ g_hookThread' = FALSE
    /\ cpc' = "idle"
    /\ startRet' = "false"
    /\ UNCHANGED <<g_hookRunning, mouse_hook, g_hookThreadId, ready, hookOk, quit, tpc, nInstall, nCalls>>
    /\ LFrame

\* worker: g_hookThreadId = GetCurrentThreadId()
WorkerTid ==
    /\ tpc = "tid"
    /\ g_hookThreadId' = TRUE
    /\ tpc' = "install"
    /\ UNCHANGED <<g_hookRunning, mouse_hook, g_hookThread, ready, hookOk, quit, cpc, startRet,
                   nInstall, nCalls>>
    /\ LFrame

\* install(): SetWindowsHookEx succeeds or returns NULL; the handle is stored
install(ok) ==
    /\ mouse_hook' = ok
    /\ hookOk' = ok
    /\ nInstall' = nInstall + 1

\* worker: bool ok = install()
WorkerInstall ==
    /\ tpc = "install"
    /\ \E ok \in BOOLEAN : install(ok)
    /\ tpc' = "set"
    /\ UNCHANGED <<g_hookRunning, g_hookThread, g_hookThreadId, ready, quit, cpc, startRet, nCalls>>
    /\ LFrame

\* worker: p.set_value(ok)
WorkerSetValue ==
    /\ tpc = "set"
    /\ ready' = IF hookOk THEN "ok" ELSE "fail"
    /\ tpc' = IF hookOk THEN "loop" ELSE "failed"
    /\ UNCHANGED <<g_hookRunning, mouse_hook, g_hookThread, g_hookThreadId, hookOk, quit, cpc, startRet,
                   nInstall, nCalls>>
    /\ LFrame

\* worker: if (!ok) { g_hookRunning.store(false); return; }
WorkerFailed ==
    /\ tpc = "failed"
    /\ g_hookRunning' = FALSE
    /\ tpc' = "ended"
    /\ UNCHANGED <<mouse_hook, g_hookThread, g_hookThreadId, ready, hookOk, quit, cpc, startRet,
                   nInstall, nCalls>>
    /\ LFrame

\* worker: GetMessage returns 0 for WM_QUIT and the loop ends
WorkerQuit ==
    /\ tpc = "loop"
    /\ quit
    /\ quit' = FALSE
    /\ tpc' = "remove"
    /\ UNCHANGED <<g_hookRunning, mouse_hook, g_hookThread, g_hookThreadId, ready, hookOk, cpc, startRet,
                   nInstall, nCalls>>
    /\ LFrame

\* worker: remove()
WorkerRemove ==
    /\ tpc = "remove"
    /\ mouse_hook' = FALSE
    /\ tpc' = "store"
    /\ UNCHANGED <<g_hookRunning, g_hookThread, g_hookThreadId, ready, hookOk, quit, cpc, startRet,
                   nInstall, nCalls>>
    /\ LFrame

\* worker: g_hookRunning.store(false), end of the lambda
WorkerEnd ==
    /\ tpc = "store"
    /\ g_hookRunning' = FALSE
    /\ tpc' = "ended"
    /\ UNCHANGED <<mouse_hook, g_hookThread, g_hookThreadId, ready, hookOk, quit, cpc, startRet,
                   nInstall, nCalls>>
    /\ LFrame

\* the controller calls stop()
StopCall ==
    /\ cpc = "idle"
    /\ nCalls < MaxCalls
    /\ nCalls' = nCalls + 1
    /\ cpc' = IF g_hookRunning THEN "stop_post" ELSE "idle"
    /\ UNCHANGED <<g_hookRunning, mouse_hook, g_hookThread, g_hookThreadId, ready, hookOk, quit, tpc,
                   startRet, nInstall>>
    /\ LFrame

\* if (g_hookThreadId) PostThreadMessage(g_hookThreadId, WM_QUIT, 0, 0)
StopPost ==
    /\ cpc = "stop_post"
    /\ quit' = (quit \/ (g_hookThreadId /\ tpc \in {"loop", "set", "failed"}))
    /\ cpc' = "stop_join"
    /\ UNCHANGED <<g_hookRunning, mouse_hook, g_hookThread, g_hookThreadId, ready, hookOk, tpc,
                   startRet, nInstall, nCalls>>
    /\ LFrame

\* if (joinable) join(); g_hookThreadId = 0; g_hookRunning.store(false)
StopJoin ==
    /\ cpc = "stop_join"
    /\ g_hookThread => tpc = "ended"
    /\ g_hookThread' = FALSE
    /\ g_hookThreadId' = FALSE
    /\ g_hookRunning' = FALSE
    /\ cpc' = "idle"
    /\ UNCHANGED <<mouse_hook, ready, hookOk, quit, tpc, startRet, nInstall, nCalls>>
    /\ LFrame

\* the controlling thread's steps, then the worker thread's
NextStart ==
    \/ StartCall
    \/ StartCheck
    \/ StartSpawn
    \/ StartGet
    \/ StartJoin
    \/ StopCall
    \/ StopPost
    \/ StopJoin
    \/ WorkerTid
    \/ WorkerInstall
    \/ WorkerSetValue
    \/ WorkerFailed
    \/ WorkerQuit
    \/ WorkerRemove
    \/ WorkerEnd

\* the process has started; start() has not been called yet
InitStart == XIdle /\ WIdle /\ HIdle /\ SIdle

SpecStart == InitStart /\ [][NextStart]_vars


(***************************************************************************)
(* Properties of the monitor                                               *)
(***************************************************************************)

\* the monitor obtained both the parent handle and the stop event
HandlesOpen == hParent /\ hStop

\* p wrote the intent marker and then returned 0
DeliberatelyExited(p) == procs[p].st = "exited" /\ procs[p].wrote /\ procs[p].code = 0

\* C1: once a main process (the parent or any child) has exited
\* deliberately, marker first and then exit, the monitor launches no new
\* main-process instance.
C1_NoLaunchAfterDeliberateExit ==
    [][(HandlesOpen /\ \E p \in 1..Len(procs) : DeliberatelyExited(p))
          => Len(procs') = Len(procs)]_vars

\* a step of run_monitor that classifies the exit of the child it waited for
ClassifyStep == wpc = "BlockedChild" /\ wr \in {"proc", "failed"} /\ wpc' # wpc

\* C2: when the child's exit is classified, the monitor takes the restart
\* path if and only if the exit code is nonzero and the marker is absent;
\* otherwise it spawns nothing, clears the persisted history and terminates,
\* and a terminated monitor stays terminated.
C2_RestartIffCrash ==
    [][/\ ClassifyStep =>
            /\ (wpc' = "CrashSleep") <=> (exit_code' # 0 /\ ~marker)
            /\ (exit_code' = 0 \/ marker) => (wpc' = "Done" /\ history' = <<>>)
            /\ wpc' \in {"CrashSleep", "Done"}
            /\ procs' = procs
       /\ wpc = "Done" => (wpc' = "Done" /\ Len(procs') = Len(procs) /\ history' = history)]_vars

\* a nonzero exit with the marker present, after an earlier crash had been
\* recorded: no restart, history cleared, monitor terminated
C2_Witness ==
    /\ wpc = "Done"
    /\ wr = "proc"
    /\ exit_code = 1
    /\ intentional
    /\ Len(restarts) >= 1
    /\ history = <<>>

\* every timestamp in the window is an abnormal exit of a child of this run
OwnRestartsOnly == Len(restarts) = Len(procs) - 1

\* C7: with max_restarts = N >= 1 the monitor takes the full-window sleep only
\* when at least N+1 abnormal exits lie within the window (the first N
\* abnormal exits are restarted without it).
C7_ThrottleOnlyAfterNPlus1 ==
    (wpc = "Throttle" /\ kMaxRestarts >= 1 /\ HandlesOpen /\ OwnRestartsOnly)
        => Len(restarts) >= kMaxRestarts + 1

RECURSIVE Doubled(_, _)
\* v doubled k times
Doubled(v, k) == IF k = 0 THEN v ELSE Doubled(2 * v, k - 1)

\* C8: the delay slept after the k-th abnormal exit is initial_ms doubled k-1
\* times and capped at max_ms, and no backoff delay exceeds max_ms.
C8_BackoffDoublesCapped ==
    /\ (wpc \in {"CrashSleep", "SpawnFailSleep"} /\ HandlesOpen) => backoff <= backoff_max
    /\ (wpc = "CrashSleep" /\ nSpawnFail = 0 /\ HandlesOpen) =>
           backoff = Min(Doubled(backoff0, Len(procs) - 2), backoff_max)

\* C9: a stop signal set while the monitor is blocked in the parent wait ends
\* the monitor with no child ever spawned; set while it is blocked in the
\* child wait it ends the monitor with no restart and the persisted history
\* cleared; the terminated monitor spawns nothing.
C9_StopWhileBlocked ==
    [][/\ (wpc = "WaitParent" /\ hStop /\ stopSet) =>
            /\ wpc' \in {"WaitParent", "Done"}
            /\ procs' = procs \/ Len(procs') = Len(procs)
       /\ (wpc = "BlockedChild" /\ wr = "stop") =>
            /\ wpc' = "BlockedChild" \/ (wpc' = "Done" /\ history' = <<>>)
            /\ Len(procs') = Len(procs)
       /\ (wpc = "BlockedChild" /\ wr = "none" /\ hStop /\ ~stopSet /\ stopSet') => wr' = "stop"
       /\ wpc = "Done" => (wpc' = "Done" /\ Len(procs') = Len(procs))]_vars

\* stopped from the child wait while the second child was still running and
\* a restart of the first had been persisted
C9_Witness ==
    /\ wpc = "Done"
    /\ wr = "stop"
    /\ Len(procs) = 3
    /\ procs[3].st = "running"
    /\ Len(restarts) >= 1
    /\ history = <<>>

\* the monitor is inside a wait in which the stop signal has been raised
StopRaisedInWait ==
    \/ wpc = "WaitParent" /\ hStop /\ stopSet
    \/ wpc = "BlockedChild" /\ wr = "stop"

\* C10: a stop signal raised while the monitor waits on the parent or on a
\* child leads to the monitor terminating, even if that process never exits.
C10_StopNeverBlocked == StopRaisedInWait ~> (wpc = "Done")

\* the stop signal is up, the monitor is in a wait, the watched process runs
C10_Witness ==
    /\ StopRaisedInWait
    /\ procs[Len(procs)].st = "running"
    /\ wpc = "BlockedChild"

\* C12: the top of the loop leaves no marker on disk; and, the monitor
\* holding both of its handles, no marker is on disk when child k is
\* spawned, and an exit of child k that is classified as intentional was
\* classified on a marker child k wrote itself.  A marker left by an earlier
\* session or an earlier process never makes the next exit intentional.
C12_MarkerOfThisChildOnly ==
    [][/\ (wpc = "LoopTop" /\ wpc' # wpc) => ~marker'
       /\ (HandlesOpen /\ Len(procs') > Len(procs)) => ~marker
       /\ (HandlesOpen /\ ClassifyStep /\ intentional') => procs[Child].wrote]_vars

\* the parent left its marker behind; the first child then crashed and the
\* crash was classified as a crash
C12_Witness ==
    /\ HandlesOpen
    /\ procs[1].st = "exited" /\ procs[1].wrote
    /\ Len(procs) = 2
    /\ procs[2].st = "exited" /\ ~procs[2].wrote
    /\ wpc = "CrashSleep"
    /\ ~intentional
    /\ exit_code = 1

\* C20: a failed spawn records nothing and spawns nothing; the monitor then
\* sleeps the current backoff, sets the backoff to min(2 * backoff,
\* backoff_max), leaves the restart list and the history file alone and goes
\* back to the top of the loop; neither step ends the monitor, the first
\* failure or a repeated one.
C20_SpawnFailureRetried ==
    [][/\ (wpc = "Spawn" /\ wpc' # wpc /\ Len(procs') = Len(procs)) =>
            /\ wpc' = "SpawnFailSleep"
            /\ restarts' = restarts /\ history' = history
            /\ backoff' = backoff /\ now' = now
       /\ (wpc = "SpawnFailSleep" /\ wpc' # wpc) =>
            /\ wpc' = "LoopTop"
            /\ now' = now + backoff
            /\ backoff' = Min(2 * backoff, backoff_max)
            /\ restarts' = restarts /\ history' = history
            /\ procs' = procs]_vars

\* the second failure in a row has been slept out: the backoff has doubled
\* twice or reached the cap, no restart is recorded, the monitor is back at
\* the top of the loop
C20_Witness ==
    /\ nSpawnFail = 2
    /\ Len(procs) = 1
    /\ wpc = "LoopTop"
    /\ restarts = <<>>
    /\ backoff0 <= backoff_max
    /\ backoff = Min(4 * backoff0, backoff_max)
    /\ now = Epoch0 + backoff0 + Min(2 * backoff0, backoff_max)




(***************************************************************************)
(* Properties of the hook                                                  *)
(***************************************************************************)
\* a synthesized event: flagged injected, carrying kArcInjectedTag
Tagged(s) == s.tag /\ s.injected

\* the events are one right-button down followed by one right-button up
IsRightClick(sq) ==
    /\ Len(sq) = 2
    /\ sq[1].msg = "RDOWN" /\ Tagged(sq[1])
    /\ sq[2].msg = "RUP" /\ Tagged(sq[2])

\* the events are one down of the trigger button
IsSourceDown(sq) == Len(sq) = 1 /\ is_down(sq[1]) /\ Tagged(sq[1])

HasAlternate(sq) == \E i \in 1..Len(sq) : sq[i].msg \in {"RDOWN", "RUP"}

\* a callback invocation has just taken place
Handled == nHandled' = nHandled + 1

TrackingUnchanged ==
    /\ g_tracking' = g_tracking
    /\ g_startPt' = g_startPt
    /\ g_downTick' = g_downTick

\* C3: a gesture that starts with a non-injected trigger-button down while
\* the configured modifiers are held (no other such down and no injected
\* down seen by the classifier before the up), has no pointer move beyond the
\* radius, and ends with the trigger-button up at most click_time_ms later
\* and at squared distance at most move_radius^2, produces exactly a tagged
\* right-button down followed by a tagged right-button up, and both the
\* original down and the original up are suppressed.
C3_QuickClickTranslated ==
    (/\ fin.valid
     /\ fin.clean
     /\ ~fin.exceeded
     /\ fin.elapsed <= g_clickTimeMs
     /\ fin.d2 <= g_moveRadius * g_moveRadius)
    => (/\ IsRightClick(fin.synth)
        /\ fin.downRet = "eat"
        /\ fin.upRet = "eat"
        /\ ~g_tracking)

\* a click held for exactly click_time_ms across the wrap of the tick
\* counter, released on the circle of radius move_radius
C3_Witness ==
    /\ fin.valid /\ fin.clean /\ ~fin.exceeded
    /\ fin.elapsed = g_clickTimeMs
    /\ fin.d2 = g_moveRadius * g_moveRadius
    /\ g_downTick[1] = W16 - 1 /\ tick[1] = 0
    /\ IsRightClick(fin.synth)
    /\ ret = "eat"

\* C4: in a tracked gesture where a pointer move lies farther than
\* move_radius from the recorded start before the button-up, exactly one
\* tagged down of the trigger button is produced, tracking ends, that move
\* and every later move and the up pass through, and no right-button event
\* is produced, however long the button is held.
C4_DragPassesThrough ==
    /\ (gest.active /\ gest.tracked /\ gest.clean /\ gest.exceeded)
       => (/\ ~g_tracking
           /\ IsSourceDown(gest.synth)
           /\ gest.passed)
    /\ (fin.valid /\ fin.tracked /\ fin.clean /\ fin.exceeded)
       => (/\ ~g_tracking
           /\ IsSourceDown(fin.synth)
           /\ ~HasAlternate(fin.synth)
           /\ fin.passed
           /\ fin.upRet = "next")

\* a drag with a side button released within click_time_ms, back inside the radius
C4_Witness ==
    /\ fin.valid /\ fin.tracked /\ fin.clean /\ fin.exceeded
    /\ g_trigger = "X2"
    /\ fin.elapsed <= g_clickTimeMs
    /\ fin.d2 <= g_moveRadius * g_moveRadius
    /\ IsSourceDown(fin.synth)
    /\ fin.upRet = "next"

\* C5: an event carrying the injection tag is passed to the next hook,
\* leaves g_tracking, g_startPt and g_downTick as they were and makes the
\* callback submit nothing, under every configuration and whether or not a
\* gesture is tracked.
C5_TaggedPassesUntouched ==
    [][(Handled /\ ev'.tag) => (ret' = "next" /\ TrackingUnchanged /\ sent' = sent)]_vars

\* the down the hook submitted for a drag has come back through the hook
\* while the modifiers were held
C5_Witness ==
    /\ g_enabled /\ ~g_ignore_injected
    /\ ev.tag /\ ev.hc
    /\ ret = "next"
    /\ is_down(ev) /\ ModifiersHeld /\ ~g_tracking
    /\ sent = 1 /\ queue = <<>>

\* C6: with ignore_injected set, an event flagged as injected that does not
\* carry the tag is passed to the next hook and leaves the tracking state
\* as it was (it starts no tracking), whatever keys are held.
C6_InjectedIgnored ==
    [][(Handled /\ g_ignore_injected /\ ev'.injected /\ ~ev'.tag)
       => (ret' = "next" /\ TrackingUnchanged /\ sent' = sent)]_vars

\* an injected trigger-button down arrived while the modifiers were held
C6_Witness ==
    /\ g_enabled /\ g_ignore_injected
    /\ ev.injected /\ ~ev.tag /\ ev.hc
    /\ is_down(ev)
    /\ ModifiersHeld
    /\ ~g_tracking
    /\ ret = "next"

\* C16: a trigger-button down handled while g_tracking is already true
\* leaves the recorded start point and down tick as they are.
C16_SecondDownNoOp ==
    [][(Handled /\ g_tracking /\ is_down(ev'))
          => (g_startPt' = g_startPt /\ g_downTick' = g_downTick)]_vars

HasSourceDown(sq) == \E i \in 1..Len(sq) : is_down(sq[i]) /\ Tagged(sq[i])

\* C18: a press held longer than click_time_ms without leaving the radius
\* makes the hook submit a down of the source button, as a move beyond the
\* radius does, and no right-button event.
C18_LongPressSimulatesSource ==
    (/\ fin.valid /\ fin.clean /\ fin.tracked /\ ~fin.exceeded
     /\ fin.elapsed > g_clickTimeMs
     /\ fin.d2 <= g_moveRadius * g_moveRadius)
    => (HasSourceDown(fin.synth) /\ ~HasAlternate(fin.synth))

\* a trigger-button down from a device, seen by the classifier, no combo configured
PlainDownNoCombo ==
    /\ Handled
    /\ g_enabled
    /\ g_modifier_combo = <<>>
    /\ ev'.hc /\ ~ev'.injected /\ ~ev'.tag
    /\ is_down(ev')

\* C19 as stated: with an empty modifier combo every non-injected
\* trigger-button down begins tracking and is suppressed, whatever keys are held.
C19_EmptyComboNoModifier ==
    [][PlainDownNoCombo => (g_tracking' /\ ret' = "eat")]_vars

\* C19 amended: with an empty modifier combo the legacy single modifier
\* (modifier_vk, ALT by default) is what is required: a non-injected
\* trigger-button down begins tracking and is suppressed if that key is held,
\* and is passed on with the tracking state untouched if it is not.
C19_EmptyComboLegacyModifier ==
    [][PlainDownNoCombo =>
          IF modifier_vk \in keys
          THEN g_tracking' /\ ret' = "eat" /\ g_startPt' = ev'.pt /\ g_downTick' = tick'
          ELSE ret' = "next" /\ TrackingUnchanged]_vars

\* no combo, no key held: the down went through and tracking did not begin
C19_Witness ==
    /\ g_enabled
    /\ g_modifier_combo = <<>>
    /\ modifier_vk = VK_MENU
    /\ keys = {}
    /\ ev.hc /\ ~ev.injected /\ ~ev.tag
    /\ is_down(ev)
    /\ ret = "next"
    /\ ~g_tracking

(***************************************************************************)
(* Properties of the hot reload                                            *)
(***************************************************************************)
\* the message is the down of configuration c's trigger button
DownUnder(c, e) ==
    CASE c.trigger = "Left" -> e.msg = "LDOWN"
      [] c.trigger = "Middle" -> e.msg = "MDOWN"
      [] c.trigger = "X1" -> e.msg = "XDOWN" /\ e.xb = XBUTTON1
      [] c.trigger = "X2" -> e.msg = "XDOWN" /\ e.xb = XBUTTON2

\* the keys configuration c requires are held
ModsUnder(c) ==
    IF c.combo # <<>> THEN \A i \in 1..Len(c.combo) : c.combo[i] \in keys
    ELSE IF c.vk # 0 THEN c.vk \in keys ELSE TRUE

\* the complete configuration c suppresses button-down e and starts tracking
EatsDownUnder(c, e) ==
    /\ e.hc /\ c.enabled /\ ~e.tag /\ ~(c.ignore_injected /\ e.injected)
    /\ DownUnder(c, e)
    /\ ModsUnder(c)

\* C11: every button-down the callback handles once apply_hook_config has
\* been called is decided as the complete old configuration or as the
\* complete new configuration decides it, never by a mixture of fields of
\* both.
C11_ReloadAtomic ==
    [][(Handled /\ apc > 0 /\ ev'.msg \in {"LDOWN", "MDOWN", "XDOWN"})
          => (ret' = "eat") \in {EatsDownUnder(oldCfg, ev'), EatsDownUnder(newCfg, ev')}]_vars

\* C15: once apply_hook_config has returned with enabled = false, no gesture
\* is being tracked.
C15_DisableEndsTracking ==
    (apc = 9 /\ ~g_enabled) => ~g_tracking

(***************************************************************************)
(* Properties of the session                                               *)
(***************************************************************************)
\* C13: no monitor is ever started by a main process that was itself
\* launched with --launched-by-monitor.
C13_NoNestedMonitor ==
    [][Len(monitors') > Len(monitors)
          => ~mains[monitors'[Len(monitors')].parent].launched_by_monitor]_vars

\* C14: at most one monitor process is alive at any time for the
\* application launched by the user and the instances relaunched for it.
C14_SingleMonitor == Cardinality(Alive) <= 1

(***************************************************************************)
(* Properties of the monitor without a stop event, and of its throttle     *)
(***************************************************************************)

\* C21: when the stop event could not be created (hStop is NULL) the monitor
\* still waits for the watched process: it leaves the parent wait only once
\* the parent has exited, and it classifies a child, and spawns the next
\* one, only once the child it waited for has exited.
C21_NoStopEventWaitsForExit ==
    [][~hStop =>
          /\ (hParent /\ wpc = "WaitParent" /\ wpc' # wpc) => Exited(1)
          /\ ClassifyStep => Exited(Child)
          /\ (Len(procs') > Len(procs) /\ Len(procs) > 1) => Exited(Child)]_vars

\* the throttle sleep can be taken within the clock bound of the model
CanSleepWindow == now + kWindow <= Epoch0 + MaxNow

InWindow(s, n) == Cardinality({i \in 1..Len(s) : n - s[i] <= kWindow})

\* C24: the monitor starts from the timestamps the history file holds, and
\* at every rate check, the first one included, timestamps count toward
\* the cap wherever they came from: with at least max_restarts of them
\* inside the window the monitor sleeps the full window, spawning nothing,
\* and a process is spawned only with fewer than max_restarts inside it.
C24_HistoryCountsAcrossRestart ==
    [][/\ (wpc = "LoadHistory" /\ wpc' # wpc)
            => restarts' = [i \in 1..Len(history) |-> 1000 * history[i]]
       /\ (wpc = "LoopTop" /\ wpc' # wpc)
            => (wpc' = "Throttle") <=> (InWindow(restarts, now) >= kMaxRestarts)
       /\ (wpc = "Throttle" /\ wpc' # wpc)
            => (now' = now + kWindow /\ procs' = procs)
       /\ Len(procs') > Len(procs)
            => (wpc = "Spawn" /\ InWindow(restarts, now) < kMaxRestarts)]_vars

\* the monitor sleeps the window before its first spawn, on the strength of
\* a timestamp an earlier monitor left in the file
C24_Witness ==
    /\ wpc = "Throttle"
    /\ Len(procs) = 1 /\ nSpawnFail = 0
    /\ kMaxRestarts = 1
    /\ history = <<99>>
    /\ restarts = <<99000>>
\* p left on one of the deliberate exit paths of main
DeliberatePath(p) == procs[p].path \in {"quit", "disabled"}

\* C25: a main process that has exited on a deliberate path (quit requested
\* by exit key, tray Exit or console; disabled in the configuration) wrote
\* the intent marker before its exit could be observed.
C25_MarkerBeforeDeliberateExit ==
    \A p \in 1..Len(procs) : (Exited(p) /\ DeliberatePath(p)) => procs[p].wrote
\* C26: a status query reports monitor_running = true exactly when a monitor
\* process of the application is alive.
C26_StatusReportsLiveMonitor ==
    monitor_running # "none" => ((monitor_running = "true") <=> (Alive # {}))
\* C27: every click_time_ms and move_radius_px that reaches the classifier,
\* from the startup load, a hot reload or any sequence of tray commands,
\* satisfies 0 < click_time_ms < 5000 and 0 <= move_radius_px < 100.
C27_TuningInRange ==
    /\ 0 < g_clickTimeMs /\ g_clickTimeMs < 5000
    /\ 0 <= g_moveRadius /\ g_moveRadius < 100
\* C30: while g_enabled is false every pointer event goes to the next hook:
\* none is suppressed, none changes the tracking state and nothing is
\* submitted with SendInput.
C30_DisabledPassesThrough ==
    [][(Handled /\ ~g_enabled)
          => (ret' = "next" /\ TrackingUnchanged /\ sent' = sent /\ Len(queue') <= Len(queue))]_vars

\* the hook was disabled in the middle of a gesture, and the trigger-button
\* up that follows the tracked down, in time and in place, was passed on
C30_Witness ==
    /\ ~g_enabled /\ apc = 9
    /\ g_tracking
    /\ ev.hc /\ is_up(ev) /\ ~ev.injected
    /\ ret = "next"
    /\ sent = 0
    /\ ModifiersHeld
(***************************************************************************)
(* Properties of config::load                                              *)
(***************************************************************************)

\* s is a decimal number: an optional sign, then digits and nothing else
IsNumber(s) ==
    LET body == IF s # <<>> /\ s[1] \in {"+", "-"} THEN Tail(s) ELSE s
    IN  body # <<>> /\ \A i \in 1..Len(body) : body[i] \in Digits

\* the value of the digits of s, every value from 100000 on taken as 100000
RECURSIVE Magnitude(_, _)
Magnitude(s, acc) ==
    IF s = <<>> THEN acc
    ELSE Magnitude(Tail(s), IF Head(s) \in Digits THEN Min(acc * 10 + DigitVal(Head(s)), 100000)
                            ELSE acc)

NumberValue(s) == IF s # <<>> /\ s[1] = "-" THEN 0 - Magnitude(s, 0) ELSE Magnitude(s, 0)

\* what the lines of key k leave in a field: the last value written as a
\* number within lo..hi, the default without one
RECURSIVE Expected(_, _, _, _, _)
Expected(lines, k, lo, hi, cur) ==
    IF lines = <<>> THEN cur
    ELSE LET l == Head(lines)
             t == trim(l.val)
             good == l.key = k /\ IsNumber(t) /\ NumberValue(t) >= lo /\ NumberValue(t) <= hi
         IN  Expected(Tail(lines), k, lo, hi, IF good THEN NumberValue(t) ELSE cur)

\* the enabled value of the last enabled line, true without one
RECURSIVE ExpectedEnabled(_, _)
ExpectedEnabled(lines, cur) ==
    IF lines = <<>> THEN cur
    ELSE ExpectedEnabled(Tail(lines),
                         IF Head(lines).key = "enabled"
                         THEN to_lower(trim(Head(lines).val)) \in {<<"1">>, <<"t", "r", "u", "e">>}
                         ELSE cur)

\* C28: load takes click_time_ms only from a value v with 0 < v < 5000 and
\* move_radius_px only from a value v with 0 <= v < 100; a value out of range
\* or not a number is ignored, the field keeping its default (250, 6), and
\* the other lines of the file are applied all the same.
C28_LoadAcceptsInRangeOnly ==
    loaded # <<>> =>
        /\ loaded[1].click_time_ms = Expected(config_file, "click_time_ms", 1, 4999, 250)
        /\ loaded[1].move_radius_px = Expected(config_file, "move_radius_px", 0, 99, 6)
        /\ loaded[1].enabled = ExpectedEnabled(config_file, TRUE)

\* C29: the modifier set of a loaded configuration holds no key twice.
C29_NoDuplicateModifiers ==
    loaded # <<>> =>
        \A i, j \in 1..Len(loaded[1].modifier_combo_vks) :
            i # j => loaded[1].modifier_combo_vks[i] # loaded[1].modifier_combo_vks[j]
(***************************************************************************)
(* Properties of the hook worker lifecycle                                 *)
(***************************************************************************)

\* a step in which start() returns to the controller
StartReturns == cpc \in {"start_check", "start_get", "start_join"} /\ cpc' = "idle"

\* C22: when install() fails, start() returns false, with the worker thread
\* ended and joined, the running flag false and install() called once only;
\* start() returns true only with the hook installed and the worker running
\* its message loop.
C22_StartReportsInstallFailure ==
    [][StartReturns =>
          /\ (nInstall > 0 /\ ~hookOk) => startRet' = "false"
          /\ startRet' = "false" =>
                /\ nInstall = 1 /\ ~hookOk
                /\ tpc' = "ended" /\ ~g_hookThread'
                /\ ~g_hookRunning' /\ ~mouse_hook'
          /\ startRet' = "true" =>
                /\ nInstall <= 1
                /\ mouse_hook' /\ g_hookRunning' /\ tpc' = "loop"]_vars

\* start() has returned false after a failed install, following an earlier
\* start() and stop()
C22_Witness ==
    /\ cpc = "idle" /\ startRet = "false"
    /\ nCalls >= 3
    /\ tpc = "ended" /\ ~g_hookRunning

(***************************************************************************)
(* Properties of the synthesized down, the stop signal and the backoff     *)
(***************************************************************************)
\* the callback has just reclassified the tracked gesture as a drag: a
\* pointer move ended tracking and one event was handed to SendInput
DragReclassified ==
    /\ Handled
    /\ ev'.msg = "MOVE"
    /\ g_tracking /\ ~g_tracking'
    /\ sent' = sent + 1

\* C31: the down submitted when a pointer move turns the tracked gesture
\* into a drag is delivered at the recorded start position g_startPt, not at
\* the position of the move that exceeded the radius.
C31_DragDownAtStart ==
    [][DragReclassified => queue'[Len(queue')].pt = g_startPt]_vars

\* C32: once the stop event is signaled the monitor starts no further child
\* process, wherever it was when the event was set (here with the event
\* handle valid, the case the monitor can observe).
C32_NoSpawnAfterStop ==
    [][(stopSet /\ hStop) => Len(procs') = Len(procs)]_vars

\* C33: during one run of the monitor the backoff changes only in the sleep
\* that follows an abnormal exit or a failed spawn, and then to
\* min(2 * backoff, backoff_max); time spent waiting on a running child
\* leaves it alone, and once it has left the initial delay it never takes
\* that value again.
C33_BackoffNeverReset ==
    [][/\ backoff' # backoff =>
            /\ wpc \in {"CrashSleep", "SpawnFailSleep"}
            /\ backoff' = Min(2 * backoff, backoff_max)
       /\ (wpc = "BlockedChild" /\ now' # now) => backoff' = backoff
       /\ backoff # backoff0 => backoff' # backoff0]_vars

\* two children each ran for 30 s and crashed; the second sleep was twice
\* the first and the backoff has reached the cap
C33_Witness ==
    /\ wpc = "LoopTop"
    /\ Len(procs) = 3
    /\ nSpawnFail = 0
    /\ backoff0 = 1000
    /\ backoff = 3000
    /\ now = Epoch0 + 30000 + 1000 + 30000 + 2000

\* C34: a child is spawned only while fewer than max_restarts recorded
\* timestamps lie inside the window (and the list holds no older ones); a
\* timestamp is added to the list only when the exit of the child waited for
\* is classified with a nonzero exit code and no marker, never by the
\* parent's exit, a failed spawn or a clean exit.  The list otherwise only
\* loses entries, at the top of the loop.  With the stop event valid the
\* child has exited when the timestamp is added.
C34_SpawnUnderCapRecordCrashOnly ==
    [][/\ Len(procs') > Len(procs)
            => (InWindow(restarts, now) < kMaxRestarts /\ InWindow(restarts, now) = Len(restarts))
       /\ (Len(restarts') > Len(restarts) /\ wpc # "LoadHistory")
            => /\ ClassifyStep
               /\ restarts' = Append(restarts, now)
               /\ exit_code' # 0 /\ ~marker
               /\ hStop => Exited(Child)
               /\ Child > 1
       /\ (wpc \in {"WaitParent", "Spawn", "SpawnFailSleep", "Throttle"} /\ wpc' # wpc)
            => restarts' = restarts
       /\ (ClassifyStep /\ (exit_code' = 0 \/ marker)) => restarts' = restarts]_vars

\* the second child is spawned with one crash on record, under a cap of two,
\* one failed spawn having gone unrecorded
C34_Witness ==
    /\ wpc = "WaitChild"
    /\ Len(procs) = 3
    /\ kMaxRestarts = 2
    /\ nSpawnFail = 1
    /\ Len(restarts) = 1
    /\ InWindow(restarts, now) = 1
    /\ hStop

(***************************************************************************)
(* Properties of the buttons as listeners see them                         *)
(***************************************************************************)
\* C35: under an enabled configuration that does not change, as long as the
\* downs and ups of every device button alternate, the trigger-button events
\* shown to the listeners (device events passed on, downs submitted by the
\* hook) alternate as well: no up without a down before it, no second down,
\* and once the button is released at the device the listeners do not hold
\* it down.
C35_DownstreamAlternates ==
    (g_enabled /\ wire.ok) =>
        /\ wire.out_ok
        /\ wire.out \subseteq wire.held


\* a drag with a side button from press to release: the down was swallowed,
\* the move beyond the radius made the hook submit the button's down, the
\* up was passed on, and the listeners have seen the button go down and up
C35_Witness ==
    /\ g_enabled /\ wire.ok /\ wire.out_ok
    /\ wire.held = {} /\ wire.out = {}
    /\ g_trigger = "X1"
    /\ fin.valid /\ fin.tracked /\ fin.exceeded
    /\ fin.downRet = "eat"
    /\ IsSourceDown(fin.synth)
    /\ is_up(ev) /\ ret = "next"


\* C36: whatever configuration changes come between the pointer events, a
\* gesture is tracked only while a source button is held down at the device
\* (checked in the weak form "some button", which the button that started
\* the gesture would satisfy), so that a drag's down is never submitted with
\* every button released.
C36_TrackingImpliesHeld ==
    (g_tracking /\ wire.ok) => wire.held # {}


\* C37: a gesture that is tracked while exactly one source button is held
\* at the device resolves against that button also when apply_hook_config
\* changes the trigger in the middle of it: the down submitted for a drag
\* is that button's, and that button's up, with the hook enabled, ends
\* tracking.
C37_GestureKeepsButton ==
    [][(Handled /\ wire.ok /\ g_tracking /\ Cardinality(wire.held) = 1) =>
          /\ DragReclassified => wire.held = {Button(queue'[Len(queue')])}
          /\ (g_enabled /\ ev'.hc /\ ~ev'.injected /\ ~IsDownMsg(ev') /\ wire.held = {Button(ev')})
                => ~g_tracking']_vars


(***************************************************************************)
(* Numerical properties of the classifier                                  *)
(***************************************************************************)
\* C38: at the up of a tracked gesture the hold time the callback computes,
\* GetTickCount() - g_downTick in DWORD arithmetic, is the time that has
\* passed since the down, also when the tick counter wrapped in between,
\* and a release inside the radius is translated exactly when that time is
\* at most click_time_ms.
C38_ElapsedAcrossWrap ==
    (fin.valid /\ fin.clean /\ fin.tracked /\ ~fin.exceeded) =>
        /\ DwSub(tick, g_downTick) = <<fin.elapsed \div W16, fin.elapsed % W16>>
        /\ fin.d2 <= g_moveRadius * g_moveRadius
              => (IsRightClick(fin.synth) <=> fin.elapsed <= g_clickTimeMs)

\* a press 100 ms before the tick counter wraps, released 251 ms later inside
\* the radius: one millisecond too long, nothing is submitted
C38_Witness ==
    /\ fin.valid /\ fin.clean /\ fin.tracked /\ ~fin.exceeded
    /\ fin.d2 <= g_moveRadius * g_moveRadius
    /\ g_downTick = <<W16 - 1, W16 - 100>>
    /\ tick = <<0, 151>>
    /\ fin.elapsed = g_clickTimeMs + 1
    /\ ~IsRightClick(fin.synth)


\* the squared distance of p and q exceeds the square of the radius, in
\* exact arithmetic
TrulyBeyond(p, q) ==
    LET v == SumSq(p, q) IN v[1] > 0 \/ v[2] > g_moveRadius * g_moveRadius

\* C39: for pointer coordinates anywhere in the signed 16-bit range, a move
\* of a tracked gesture whose exact squared distance from the start exceeds
\* move_radius^2 is classified as beyond the radius: tracking ends and the
\* source-button down is submitted.
C39_DistanceTestExact ==
    [][(Handled /\ g_tracking /\ ev'.msg = "MOVE" /\ TrulyBeyond(ev'.pt, g_startPt))
          => (~g_tracking' /\ sent' = sent + 1)]_vars

====
